---- MODULE Spec2Model ----
(***************************************************************************)
(* Verification model of the VROOM (Trexity edition) route core:           *)
(*   - RawRoute: capacity / load bookkeeping (raw_route.cpp),               *)
(*   - the budget repair pass (budget_repair.cpp) with the helper kernels   *)
(*     of helpers.h and the feasibility predicates it calls.                *)
(*   - the insertion gates of RawRoute without time windows (raw_route.h),  *)
(*   - TWRoute::replace and its date propagation (tw_route.cpp),            *)
(*   - the saturating arithmetic and the comparisons of Eval (eval.h),      *)
(*   - the break bookkeeping of TWRoute (tw_route.cpp),                     *)
(*   - TWRoute::order_choice and the anchor guards of the range predicates. *)
(* Indices follow the C++ code: ranks and steps are 0-based; a route is a   *)
(* TLA+ sequence read through At(route, i) == route[i + 1].                 *)
(***************************************************************************)
EXTENDS Integers, Sequences, FiniteSets, TLC

VARIABLES
  raw,      \* the RawRoute object
  rin,      \* its vehicle: capacity and pinned boundaries
  rop,      \* history: the last operation applied to raw
  inp,      \* Input of repair_budget (budgets, pins, eligibility, flags)
  sol,      \* Solution passed by reference to repair_budget
  pre,      \* history: the solution as it was when repair_budget was called
  pc,       \* position of repair_budget
  ri,       \* index of the route being processed
  loc,      \* locals of the loop body for the current route
  kept_routes, extra_unassigned, remove_from_unassigned_ids,
  log       \* history: one entry per processed route

vars == <<raw, rin, rop, inp, sol, pre, pc, ri, loc, kept_routes,
          extra_unassigned, remove_from_unassigned_ids, log>>

rawVars == <<raw, rin, rop>>

budgetVars == <<inp, sol, pre, pc, ri, loc, kept_routes, extra_unassigned,
                remove_from_unassigned_ids, log>>

At(s, i) == s[i + 1]

Min(a, b) == IF a <= b THEN a ELSE b
Max(a, b) == IF a >= b THEN a ELSE b

\* vector::insert(begin + rank, x)
InsertAt(s, rank, x) ==
  SubSeq(s, 1, rank) \o <<x>> \o SubSeq(s, rank + 1, Len(s))

\* erase [first_rank, last_rank) then insert jobs at first_rank
ReplaceRange(s, jobs, first_rank, last_rank) ==
  SubSeq(s, 1, first_rank) \o jobs \o SubSeq(s, last_rank + 1, Len(s))

Range(s) == {s[i] : i \in 1..Len(s)}

\* the element of a one-element set: TheOne({F(x) : x \in {e}}) is F(e), with
\* e worked out once however often F reads x
TheOne(S) == CHOOSE x \in S : TRUE

RECURSIVE SeqSum(_)
SeqSum(s) == IF Len(s) = 0 THEN 0 ELSE s[1] + SeqSum(Tail(s))

----------------------------------------------------------------------------
(* Amount: component-wise integer vectors                                   *)

AmountSize == 2

AmountIdx == 1..AmountSize

ZeroAmount == [c \in AmountIdx |-> 0]

AmountAdd(a, b) == [c \in AmountIdx |-> a[c] + b[c]]

AmountSub(a, b) == [c \in AmountIdx |-> a[c] - b[c]]

\* Amount operator<= : every component is <=
AmountLeq(a, b) == \A c \in AmountIdx : a[c] <= b[c]

AmountMax(a, b) == [c \in AmountIdx |-> Max(a[c], b[c])]

----------------------------------------------------------------------------
(* Input: the job table (input.jobs).  A shipment is a PICKUP at rank p     *)
(* followed by its DELIVERY at rank p + 1.  Times are durations, amounts    *)
(* are Amount vectors.  A default TimeWindow is [0, Horizon].               *)

Horizon == 40

DefaultTW == <<[start |-> 0, end |-> Horizon]>>

Jobs ==
  [r \in 0..7 |->
     CASE r = 0 -> [type |-> "SINGLE",   id |-> 11, index |-> 1,
                    pickup |-> <<1, 0>>, delivery |-> <<0, 1>>,
                    setup |-> 1, service |-> 1, tws |-> DefaultTW]
       [] r = 1 -> [type |-> "SINGLE",   id |-> 12, index |-> 2,
                    pickup |-> <<0, 1>>, delivery |-> <<1, 0>>,
                    setup |-> 1, service |-> 0,
                    tws |-> <<[start |-> 0, end |-> 1], [start |-> 4, end |-> 6]>>]
       [] r = 2 -> [type |-> "PICKUP",   id |-> 21, index |-> 1,
                    pickup |-> <<1, 1>>, delivery |-> <<0, 0>>,
                    setup |-> 1, service |-> 1, tws |-> DefaultTW]
       [] r = 3 -> [type |-> "DELIVERY", id |-> 31, index |-> 2,
                    pickup |-> <<0, 0>>, delivery |-> <<1, 1>>,
                    setup |-> 0, service |-> 1, tws |-> DefaultTW]
       [] r = 4 -> [type |-> "SINGLE",   id |-> 13, index |-> 3,
                    pickup |-> <<0, 0>>, delivery |-> <<1, 1>>,
                    setup |-> 0, service |-> 0, tws |-> DefaultTW]
       [] r = 5 -> [type |-> "SINGLE",   id |-> 14, index |-> 1,
                    pickup |-> <<2, 0>>, delivery |-> <<0, 0>>,
                    setup |-> 0, service |-> 1, tws |-> DefaultTW]
       [] r = 6 -> [type |-> "PICKUP",   id |-> 22, index |-> 3,
                    pickup |-> <<0, 1>>, delivery |-> <<0, 0>>,
                    setup |-> 0, service |-> 0, tws |-> DefaultTW]
       [] OTHER -> [type |-> "DELIVERY", id |-> 32, index |-> 1,
                    pickup |-> <<0, 0>>, delivery |-> <<0, 1>>,
                    setup |-> 0, service |-> 0, tws |-> DefaultTW]]

JobRanks == DOMAIN Jobs

\* A job sequence a route may hold: no job twice, every delivery after its
\* pickup, and a pickup never without its delivery (update_amounts asserts
\* nb_deliveries <= nb_pickups and pd_loads.back() == 0).
WellFormed(r) ==
  /\ \A i, k \in 1..Len(r) : i # k => r[i] # r[k]
  /\ \A i \in 1..Len(r) :
       /\ Jobs[r[i]].type = "PICKUP" =>
            \E k \in (i + 1)..Len(r) : r[k] = r[i] + 1
       /\ Jobs[r[i]].type = "DELIVERY" =>
            \E k \in 1..(i - 1) : r[k] = r[i] - 1

----------------------------------------------------------------------------
(* RawRoute (raw_route.cpp)                                                 *)

\* Sum of f(job) over route ranks lo..hi (0-based, inclusive), single jobs only
RECURSIVE SingleSum(_, _, _, _)
SingleSum(r, lo, hi, field) ==
  IF hi < lo THEN ZeroAmount
  ELSE AmountAdd(SingleSum(r, lo, hi - 1, field),
                 IF Jobs[At(r, hi)].type = "SINGLE"
                 THEN (IF field = "pickup" THEN Jobs[At(r, hi)].pickup
                       ELSE Jobs[At(r, hi)].delivery)
                 ELSE ZeroAmount)

\* current_pd_load after processing ranks 0..i
RECURSIVE PdLoad(_, _)
PdLoad(r, i) ==
  IF i < 0 THEN ZeroAmount
  ELSE LET j == Jobs[At(r, i)]
           before == PdLoad(r, i - 1)
       IN CASE j.type = "PICKUP" -> AmountAdd(before, j.pickup)
            [] j.type = "DELIVERY" -> AmountSub(before, j.delivery)
            [] OTHER -> before

NbOfType(r, i, t) == Cardinality({k \in 0..i : Jobs[At(r, k)].type = t})

\* running component-wise max of loads over steps lo..hi
RECURSIVE PeakOver(_, _, _)
PeakOver(loads, lo, hi) ==
  IF lo = hi THEN loads[lo]
  ELSE AmountMax(PeakOver(loads, lo, hi - 1), loads[hi])

\* RawRoute::RawRoute: the state right after construction
RawRouteInit(capacity) ==
  [route |-> <<>>,
   fwd_pickups |-> <<>>, fwd_deliveries |-> <<>>,
   bwd_deliveries |-> <<>>, bwd_pickups |-> <<>>,
   pd_loads |-> <<>>, nb_pickups |-> <<>>, nb_deliveries |-> <<>>,
   current_loads |-> <<>>,
   fwd_peaks |-> [s \in 0..1 |-> ZeroAmount],
   bwd_peaks |-> [s \in 0..1 |-> ZeroAmount],
   delivery_margin |-> capacity,
   pickup_margin |-> capacity]

\* RawRoute::update_amounts on route r; old is the object before the call
\* (the early return on an empty route leaves the margins as they were).
\* Vectors are functions over the C++ index range.
update_amounts(old, r, capacity) ==
  LET n == Len(r) IN
  IF n = 0
  THEN [old EXCEPT
          !.route = r,
          !.fwd_pickups = <<>>, !.fwd_deliveries = <<>>,
          !.bwd_deliveries = <<>>, !.bwd_pickups = <<>>,
          !.pd_loads = <<>>, !.nb_pickups = <<>>, !.nb_deliveries = <<>>,
          !.current_loads = [s \in 0..1 |-> ZeroAmount],
          !.fwd_peaks = [s \in 0..1 |-> ZeroAmount],
          !.bwd_peaks = [s \in 0..1 |-> ZeroAmount]]
  ELSE
    LET fwd_pickups == [i \in 0..(n - 1) |-> SingleSum(r, 0, i, "pickup")]
        fwd_deliveries == [i \in 0..(n - 1) |-> SingleSum(r, 0, i, "delivery")]
        bwd_deliveries == [i \in 0..(n - 1) |-> SingleSum(r, i + 1, n - 1, "delivery")]
        bwd_pickups == [i \in 0..(n - 1) |-> SingleSum(r, i + 1, n - 1, "pickup")]
        pd_loads == [i \in 0..(n - 1) |-> PdLoad(r, i)]
        current_loads ==
          [s \in 0..(n + 1) |->
             IF s = 0 THEN SingleSum(r, 0, n - 1, "delivery")
             ELSE IF s = n + 1 THEN fwd_pickups[n - 1]
             ELSE AmountAdd(AmountAdd(fwd_pickups[s - 1], pd_loads[s - 1]),
                            bwd_deliveries[s - 1])]
    IN [route |-> r,
        fwd_pickups |-> fwd_pickups,
        fwd_deliveries |-> fwd_deliveries,
        bwd_deliveries |-> bwd_deliveries,
        bwd_pickups |-> bwd_pickups,
        pd_loads |-> pd_loads,
        nb_pickups |-> [i \in 0..(n - 1) |-> NbOfType(r, i, "PICKUP")],
        nb_deliveries |-> [i \in 0..(n - 1) |-> NbOfType(r, i, "DELIVERY")],
        current_loads |-> current_loads,
        fwd_peaks |-> [s \in 0..(n + 1) |-> PeakOver(current_loads, 0, s)],
        bwd_peaks |-> [s \in 0..(n + 1) |-> PeakOver(current_loads, s, n + 1)],
        delivery_margin |-> AmountSub(capacity, current_loads[0]),
        pickup_margin |-> AmountSub(capacity, fwd_pickups[n - 1])]

\* RawRoute::set_route
set_route(old, r, capacity) == update_amounts(old, r, capacity)

\* RawRoute::add
add(old, job_rank, rank, capacity) ==
  update_amounts(old, InsertAt(old.route, rank, job_rank), capacity)

\* RawRoute::remove
remove(old, rank, count, capacity) ==
  update_amounts(old, ReplaceRange(old.route, <<>>, rank, rank + count), capacity)

\* RawRoute::replace
replace(old, jobs, first_rank, last_rank, capacity) ==
  update_amounts(old, ReplaceRange(old.route, jobs, first_rank, last_rank), capacity)

\* RawRoute::is_valid_addition_for_capacity without the backward-peak test
addition_forward_peak_only(rr, pickup, delivery, rank, capacity) ==
  AmountLeq(AmountAdd(rr.fwd_peaks[rank], delivery), capacity)

\* RawRoute::is_valid_addition_for_capacity
is_valid_addition_for_capacity(rr, pickup, delivery, rank, capacity) ==
  /\ AmountLeq(AmountAdd(rr.fwd_peaks[rank], delivery), capacity)
  /\ AmountLeq(AmountAdd(rr.bwd_peaks[rank], pickup), capacity)

\* RawRoute::is_valid_addition_for_load
is_valid_addition_for_load(rr, pickup, rank, capacity) ==
  LET load == IF Len(rr.route) = 0 THEN ZeroAmount ELSE rr.current_loads[rank]
  IN AmountLeq(AmountAdd(load, pickup), capacity)

\* RawRoute::max_load(): the forward peak at the last step
max_load(rr) == rr.fwd_peaks[Len(rr.route) + 1]

\* every step load of the route is within the vehicle capacity
CapacityValid(rr, capacity) ==
  \A s \in DOMAIN rr.current_loads : AmountLeq(rr.current_loads[s], capacity)

\* std::optional<Index> without a value
NoRank == -1

\* Input::PinnedBoundary: a pinned single job, a pinned shipment, or none
NoPinned ==
  [kind |-> "none", job_rank |-> NoRank, pickup_rank |-> NoRank, delivery_rank |-> NoRank]

PinnedJob(j) ==
  [kind |-> "job", job_rank |-> j, pickup_rank |-> NoRank, delivery_rank |-> NoRank]

PinnedShipment(p) ==
  [kind |-> "shipment", job_rank |-> NoRank, pickup_rank |-> p, delivery_rank |-> p + 1]

\* pinned-first block of is_valid_addition_for_capacity_inclusion
inclusion_pinned_first_ok(route, jobs, first_rank, last_rank, pf) ==
  LET n == Len(route)
      insert_len == Len(jobs)
  IN CASE pf.kind = "job" ->
            (first_rank = 0) =>
               IF insert_len > 0 THEN jobs[1] = pf.job_rank
               ELSE last_rank < n /\ At(route, last_rank) = pf.job_rank
       [] pf.kind = "shipment" ->
            /\ (first_rank = 0) =>
                 LET n0 == IF insert_len >= 1 THEN jobs[1]
                           ELSE IF last_rank < n THEN At(route, last_rank)
                           ELSE NoRank
                     n1 == IF insert_len >= 2 THEN jobs[2]
                           ELSE IF insert_len = 1
                                THEN (IF last_rank < n THEN At(route, last_rank)
                                      ELSE NoRank)
                           ELSE IF last_rank + 1 < n THEN At(route, last_rank + 1)
                           ELSE NoRank
                 IN /\ n0 # NoRank /\ n1 # NoRank
                    /\ n0 = pf.pickup_rank
                    /\ n1 = pf.delivery_rank
            /\ ~(/\ first_rank = 1 /\ insert_len > 0
                 /\ n >= 2
                 /\ At(route, 0) = pf.pickup_rank
                 /\ At(route, 1) = pf.delivery_rank)
       [] OTHER -> TRUE

\* pinned-last block of is_valid_addition_for_capacity_inclusion
inclusion_pinned_last_ok(route, jobs, first_rank, last_rank, pl) ==
  LET n == Len(route)
      insert_len == Len(jobs)
  IN CASE pl.kind = "job" ->
            (last_rank = n) =>
               LET new_last == IF insert_len > 0 THEN jobs[insert_len]
                               ELSE IF first_rank > 0 THEN At(route, first_rank - 1)
                               ELSE NoRank
               IN new_last # NoRank /\ new_last = pl.job_rank
       [] pl.kind = "shipment" ->
            /\ (last_rank = n) =>
                 /\ insert_len >= 2
                 /\ jobs[insert_len - 1] = pl.pickup_rank
                 /\ jobs[insert_len] = pl.delivery_rank
            /\ ~(/\ first_rank = (IF n >= 1 THEN n - 1 ELSE 0)
                 /\ insert_len > 0
                 /\ n >= 2
                 /\ At(route, n - 2) = pl.pickup_rank
                 /\ At(route, n - 1) = pl.delivery_rank)
       [] OTHER -> TRUE

\* running load of the capacity loop after the first k inserted jobs
RECURSIVE inclusion_load(_, _, _)
inclusion_load(start, jobs, k) ==
  IF k = 0 THEN start
  ELSE AmountSub(AmountAdd(inclusion_load(start, jobs, k - 1), Jobs[jobs[k]].pickup),
                 Jobs[jobs[k]].delivery)

\* load on entering the inserted range: the new deliveries are on board,
\* the deliveries of the replaced single jobs are not
inclusion_start(rr, delivery, first_rank, last_rank) ==
  LET empty == Len(rr.route) = 0
      init_load == IF empty THEN ZeroAmount ELSE rr.current_loads[0]
      first_deliveries == IF first_rank = 0 THEN init_load
                          ELSE rr.bwd_deliveries[first_rank - 1]
      last_deliveries == IF last_rank = 0 THEN init_load
                         ELSE rr.bwd_deliveries[last_rank - 1]
      replaced_deliveries == AmountSub(first_deliveries, last_deliveries)
  IN AmountSub(AmountAdd(delivery,
                         IF empty THEN ZeroAmount ELSE rr.current_loads[first_rank]),
               replaced_deliveries)

\* the capacity part with the job-by-job loop left out
inclusion_entry_load_only(rr, delivery, jobs, first_rank, last_rank, capacity) ==
  AmountLeq(inclusion_start(rr, delivery, first_rank, last_rank), capacity)

\* capacity part of is_valid_addition_for_capacity_inclusion
inclusion_capacity_ok(rr, delivery, jobs, first_rank, last_rank, capacity) ==
  LET start == inclusion_start(rr, delivery, first_rank, last_rank)
  IN \A k \in 0..Len(jobs) : AmountLeq(inclusion_load(start, jobs, k), capacity)

\* RawRoute::is_valid_addition_for_capacity_inclusion
is_valid_addition_for_capacity_inclusion(rr, delivery, jobs, first_rank, last_rank, capacity, pf, pl) ==
  /\ inclusion_pinned_first_ok(rr.route, jobs, first_rank, last_rank, pf)
  /\ inclusion_pinned_last_ok(rr.route, jobs, first_rank, last_rank, pl)
  /\ inclusion_capacity_ok(rr, delivery, jobs, first_rank, last_rank, capacity)

\* sum of the deliveries of the single jobs of a job sequence
RECURSIVE SingleDeliveries(_)
SingleDeliveries(jobs) ==
  IF Len(jobs) = 0 THEN ZeroAmount
  ELSE AmountAdd(IF Jobs[Head(jobs)].type = "SINGLE" THEN Jobs[Head(jobs)].delivery
                 ELSE ZeroAmount,
                 SingleDeliveries(Tail(jobs)))

----------------------------------------------------------------------------
(* Vehicles and travel.  All vehicles price one unit of duration at one    *)
(* unit of cost (Vehicle::eval and the cost wrapper), so an Eval is         *)
(* represented by its cost.                                                 *)

Durations ==
  [a \in 0..3 |-> [b \in 0..3 |->
     IF a = b THEN 0
     ELSE IF {a, b} = {0, 1} THEN 1
     ELSE IF {a, b} = {0, 2} THEN 2
     ELSE IF {a, b} = {1, 2} THEN 1
     ELSE 2]]

Vehicles ==
  [vi \in 0..2 |->
     IF vi = 0
     THEN [id |-> 101, has_start |-> TRUE, start |-> 0,
           has_end |-> FALSE, end |-> NoRank,
           capacity |-> <<2, 2>>, fixed_cost |-> 0,
           tw |-> [start |-> 0, end |-> Horizon]]
     ELSE IF vi = 1
     THEN [id |-> 102, has_start |-> TRUE, start |-> 0,
           has_end |-> TRUE, end |-> 0,
           capacity |-> <<2, 2>>, fixed_cost |-> 1,
           tw |-> [start |-> 0, end |-> 9]]
     ELSE [id |-> 103, has_start |-> TRUE, start |-> 0,
           has_end |-> FALSE, end |-> NoRank,
           capacity |-> <<2, 2>>, fixed_cost |-> 0,
           tw |-> [start |-> 0, end |-> Horizon]]]

VehicleRanks == DOMAIN Vehicles

\* Vehicle::duration
duration(v, a, b) == Durations[a][b]

\* Vehicle::eval(a, b).cost
eval(v, a, b) == Durations[a][b]

\* utils::route_eval_for_vehicle: travel from the start through the jobs to
\* the end, on the legs the vehicle has
RECURSIVE route_eval_legs(_, _, _)
route_eval_legs(v, route, i) ==
  IF i >= Len(route) THEN 0
  ELSE eval(v, Jobs[route[i]].index, Jobs[route[i + 1]].index)
         + route_eval_legs(v, route, i + 1)

route_eval_for_vehicle(v_rank, route) ==
  LET v == Vehicles[v_rank] IN
  IF Len(route) = 0 THEN 0
  ELSE (IF v.has_start THEN eval(v, v.start, Jobs[route[1]].index) ELSE 0)
       + route_eval_legs(v, route, 1)
       + (IF v.has_end THEN eval(v, Jobs[route[Len(route)]].index, v.end) ELSE 0)

\* utils::setup_for_prev
setup_for_prev(job, v, prev_index) ==
  IF prev_index # NoRank /\ prev_index = job.index THEN 0 ELSE job.setup

\* utils::service_for
service_for(job, v) == job.service


\* utils::action_cost_from_duration
action_cost_from_duration(v, d) ==
  IF d = 0 THEN 0 ELSE d

\* utils::job_budget; budget is the per-job budget of the input
job_budget(budget, job_rank) ==
  IF Jobs[job_rank].type = "DELIVERY" THEN 0 ELSE budget[job_rank]

\* the vehicle start as the "previous index" of the first job
start_index(v) == IF v.has_start THEN v.start ELSE NoRank

\* utils::route_action_time_duration
RECURSIVE route_action_time_from(_, _, _, _)
route_action_time_from(v, route, i, prev) ==
  IF i > Len(route) THEN 0
  ELSE setup_for_prev(Jobs[route[i]], v, prev) + service_for(Jobs[route[i]], v)
         + route_action_time_from(v, route, i + 1, Jobs[route[i]].index)

route_action_time_duration(v, route) ==
  IF Len(route) = 0 THEN 0
  ELSE route_action_time_from(v, route, 1, start_index(v))

\* utils::addition_cost_travel (single job)
addition_cost_travel(job_rank, v_rank, route, rank) ==
  LET v == Vehicles[v_rank]
      job_index == Jobs[job_rank].index
      n == Len(route)
      previous_eval ==
        IF rank = n
        THEN (IF n = 0
              THEN (IF v.has_start THEN eval(v, v.start, job_index) ELSE 0)
              ELSE eval(v, Jobs[At(route, rank - 1)].index, job_index))
        ELSE (IF rank = 0
              THEN (IF v.has_start THEN eval(v, v.start, job_index) ELSE 0)
              ELSE eval(v, Jobs[At(route, rank - 1)].index, job_index))
      next_eval ==
        IF rank = n
        THEN (IF v.has_end THEN eval(v, job_index, v.end) ELSE 0)
        ELSE eval(v, job_index, Jobs[At(route, rank)].index)
      old_edge_eval ==
        IF rank = n
        THEN (IF n > 0 /\ v.has_end
              THEN eval(v, Jobs[At(route, rank - 1)].index, v.end) ELSE 0)
        ELSE (IF rank = 0
              THEN (IF v.has_start
                    THEN eval(v, v.start, Jobs[At(route, rank)].index) ELSE 0)
              ELSE eval(v, Jobs[At(route, rank - 1)].index,
                        Jobs[At(route, rank)].index))
  IN previous_eval + next_eval - old_edge_eval

\* utils::addition_cost_travel (pickup at pickup_rank, delivery at
\* delivery_rank in the route with the pickup)
addition_cost_travel_pd(job_rank, v_rank, route, pickup_rank, delivery_rank) ==
  LET v == Vehicles[v_rank]
      p_index == Jobs[job_rank].index
      d_index == Jobs[job_rank + 1].index
      pickup_part == addition_cost_travel(job_rank, v_rank, route, pickup_rank)
  IN IF delivery_rank = pickup_rank + 1
     THEN LET at_end == pickup_rank = Len(route)
              after_delivery ==
                IF at_end
                THEN (IF v.has_end THEN eval(v, d_index, v.end) ELSE 0)
                ELSE eval(v, d_index, Jobs[At(route, pickup_rank)].index)
              remove_after_pickup ==
                IF at_end
                THEN (IF v.has_end THEN eval(v, p_index, v.end) ELSE 0)
                ELSE eval(v, p_index, Jobs[At(route, pickup_rank)].index)
          IN pickup_part + eval(v, p_index, d_index) + after_delivery
               - remove_after_pickup
     ELSE pickup_part
            + addition_cost_travel(job_rank + 1, v_rank, route, delivery_rank - 1)

\* previous index of an insertion at insert_rank of the original route
prev_index_at(v, route, insert_rank) ==
  IF insert_rank = 0 THEN start_index(v)
  ELSE Jobs[At(route, insert_rank - 1)].index

\* utils::action_time_delta_single
action_time_delta_single(v, route, job_rank, insert_rank) ==
  LET j == Jobs[job_rank]
      prev == prev_index_at(v, route, insert_rank)
  IN setup_for_prev(j, v, prev) + service_for(j, v)
       + (IF insert_rank < Len(route)
          THEN setup_for_prev(Jobs[At(route, insert_rank)], v, j.index)
                 - setup_for_prev(Jobs[At(route, insert_rank)], v, prev)
          ELSE 0)

\* utils::action_time_delta_pd_contiguous
action_time_delta_pd_contiguous(v, pickup_rank_in_input) ==
  LET p == Jobs[pickup_rank_in_input]
      d == Jobs[pickup_rank_in_input + 1]
  IN setup_for_prev(p, v, start_index(v)) + service_for(p, v)
       + setup_for_prev(d, v, p.index) + service_for(d, v)

\* utils::action_time_delta_pd_general
action_time_delta_pd_general(v, route, pickup_insert_rank, delivery_insert_rank, pickup_rank_in_input) ==
  IF delivery_insert_rank = pickup_insert_rank
  THEN action_time_delta_pd_contiguous(v, pickup_rank_in_input)
  ELSE
    LET p == Jobs[pickup_rank_in_input]
        d == Jobs[pickup_rank_in_input + 1]
        prev_p == prev_index_at(v, route, pickup_insert_rank)
        prev_d == prev_index_at(v, route, delivery_insert_rank)
    IN setup_for_prev(p, v, prev_p) + service_for(p, v)
         + (IF pickup_insert_rank < Len(route)
            THEN setup_for_prev(Jobs[At(route, pickup_insert_rank)], v, p.index)
                   - setup_for_prev(Jobs[At(route, pickup_insert_rank)], v, prev_p)
            ELSE 0)
         + setup_for_prev(d, v, prev_d) + service_for(d, v)
         + (IF delivery_insert_rank < Len(route)
            THEN setup_for_prev(Jobs[At(route, delivery_insert_rank)], v, d.index)
                   - setup_for_prev(Jobs[At(route, delivery_insert_rank)], v, prev_d)
            ELSE 0)

----------------------------------------------------------------------------
(* TWRoute (tw_route.cpp), for vehicles without breaks: the break vectors   *)
(* hold zeros, the break loops of the range predicate have no iteration and *)
(* check_max_load is off (v.has_break_max_load is false).                   *)
(* The input record in holds pinned (set of job ranks), pinned_first and    *)
(* pinned_last (per vehicle rank), pinned_soft_timing and                   *)
(* pinned_violation_budget.                                                 *)

\* action time of a job served after a stop at prev_index
job_action_time(j, prev_index) ==
  IF prev_index # NoRank /\ j.index = prev_index THEN j.service
  ELSE j.setup + j.service

\* forward pass of seed_relaxed_from_job_ranks: service start of step i
\* (0-based), no time-window clamp
RECURSIVE relaxed_start(_, _, _)
relaxed_start(v, route, i) ==
  LET j == Jobs[At(route, i)] IN
  IF i = 0
  THEN v.tw.start + (IF v.has_start THEN duration(v, v.start, j.index) ELSE 0)
  ELSE LET pj == Jobs[At(route, i - 1)]
           pprev == IF i = 1 THEN start_index(v) ELSE Jobs[At(route, i - 2)].index
       IN relaxed_start(v, route, i - 1) + job_action_time(pj, pprev)
            + duration(v, pj.index, j.index)

\* TWRoute::TWRoute followed by TWRoute::seed_relaxed_from_job_ranks
seed_relaxed_from_job_ranks(in, v_rank, job_ranks) ==
  LET v == Vehicles[v_rank]
      n == Len(job_ranks)
  IN [raw |-> set_route(RawRouteInit(v.capacity), job_ranks, v.capacity),
      v_rank |-> v_rank,
      v_start |-> v.tw.start,
      v_end |-> v.tw.end,
      earliest |-> [i \in 0..(n - 1) |-> relaxed_start(v, job_ranks, i)],
      latest |-> [i \in 0..(n - 1) |-> v.tw.end],
      action_time |->
        [i \in 0..(n - 1) |->
           job_action_time(Jobs[At(job_ranks, i)],
                           IF i = 0 THEN start_index(v)
                           ELSE Jobs[At(job_ranks, i - 1)].index)],
      breaks_at_rank |-> [i \in 0..n |-> 0],
      breaks_counts |-> [i \in 0..n |-> 0],
      baseline_service_start |-> [i \in 0..(n - 1) |-> relaxed_start(v, job_ranks, i)],
      is_pinned_step |-> [i \in 0..(n - 1) |-> At(job_ranks, i) \in in.pinned]]

\* TWRoute::previous_info
previous_info(tw, job_rank, rank) ==
  LET v == Vehicles[tw.v_rank]
      j == Jobs[job_rank]
  IN IF rank > 0
     THEN LET previous_job == Jobs[At(tw.raw.route, rank - 1)]
          IN [earliest |-> tw.earliest[rank - 1] + tw.action_time[rank - 1],
              travel |-> duration(v, previous_job.index, j.index),
              location_index |-> previous_job.index]
     ELSE IF v.has_start
          THEN [earliest |-> tw.v_start,
                travel |-> duration(v, v.start, j.index),
                location_index |-> v.start]
          ELSE [earliest |-> tw.v_start, travel |-> 0, location_index |-> NoRank]

\* TWRoute::next_info
next_info(tw, job_rank, rank) ==
  LET v == Vehicles[tw.v_rank]
      j == Jobs[job_rank]
  IN IF rank = Len(tw.raw.route)
     THEN [latest |-> tw.v_end,
           travel |-> IF v.has_end THEN duration(v, j.index, v.end) ELSE 0]
     ELSE [latest |-> tw.latest[rank],
           travel |-> duration(v, j.index, Jobs[At(tw.raw.route, rank)].index)]

\* std::ranges::find_if(tws, earliest <= tw.end): position of the first
\* time window still open at t, 0 if none
first_open_tw(tws, t) ==
  IF \E k \in 1..Len(tws) : t <= tws[k].end
  THEN CHOOSE k \in 1..Len(tws) :
         /\ t <= tws[k].end
         /\ \A m \in 1..(k - 1) : t > tws[m].end
  ELSE 0

\* anchor guards of the range predicate (only when jobs are inserted)
tw_anchor_guards_ok(in, tw, jobs, first_rank, last_rank) ==
  LET route == tw.raw.route
      n == Len(route)
      insert_len == Len(jobs)
      pf == in.pinned_first[tw.v_rank]
      pl == in.pinned_last[tw.v_rank]
  IN /\ CASE pf.kind = "job" ->
               (first_rank = 0) => jobs[1] = pf.job_rank
          [] pf.kind = "shipment" ->
               /\ (first_rank = 0) =>
                    /\ insert_len >= 2
                    /\ jobs[1] = pf.pickup_rank
                    /\ jobs[2] = pf.delivery_rank
               /\ ~(first_rank = 1 /\ n > 0 /\ At(route, 0) = pf.pickup_rank)
          [] OTHER -> TRUE
     /\ CASE pl.kind = "job" ->
               (last_rank = n) => jobs[insert_len] = pl.job_rank
          [] pl.kind = "shipment" ->
               (last_rank = n) =>
                  /\ insert_len >= 2
                  /\ jobs[insert_len - 1] = pl.pickup_rank
                  /\ jobs[insert_len] = pl.delivery_rank
          [] OTHER -> TRUE

\* the job loop of the range predicate: state after the first k inserted
\* jobs; ok is false once a job has no time window left
tw_walk_step(v, jobs, k, cur) ==
  LET j == Jobs[jobs[k]]
      arrival == cur.earliest + cur.travel
      w == first_open_tw(j.tws, arrival)
  IN IF ~cur.ok \/ w = 0
     THEN [cur EXCEPT !.ok = FALSE]
     ELSE [ok |-> TRUE,
           earliest |-> Max(arrival, j.tws[w].start)
                          + job_action_time(j, cur.location_index),
           travel |-> IF k < Len(jobs)
                      THEN duration(v, j.index, Jobs[jobs[k + 1]].index)
                      ELSE cur.travel,
           location_index |-> j.index]

RECURSIVE tw_walk(_, _, _, _)
tw_walk(v, jobs, k, start) ==
  IF k = 0 THEN start
  ELSE TheOne({tw_walk_step(v, jobs, k, cur) :
                 cur \in {tw_walk(v, jobs, k - 1, start)}})

\* setup-change check for the task right after the replaced range
tw_setup_after_ok(tw, last_rank, current, next) ==
  LET route == tw.raw.route
      j_after == Jobs[At(route, last_rank)]
      new_action_time == j_after.setup + j_after.service
      earliest_after == current.earliest + next.travel
      w == first_open_tw(j_after.tws, earliest_after)
      next_after == next_info(tw, At(route, last_rank), last_rank + 1)
  IN (/\ j_after.index # current.location_index
      /\ tw.action_time[last_rank] < new_action_time)
       => /\ w # 0
          /\ Max(earliest_after, j_after.tws[w].start) + new_action_time
               + next_after.travel <= next_after.latest

soft_delay_never_checked(in, tw, last_rank, current, next) == TRUE

\* soft-timing guard: the delay added at the next original step must stay
\* within what every pinned step at or after last_rank allows.  The baseline
\* vector keeps the size it got when the route was seeded; a rank beyond it
\* reads its last entry.
tw_soft_delay_ok(in, tw, last_rank, current, next) ==
  LET route == tw.raw.route
      n == Len(route)
      size == Cardinality(DOMAIN tw.baseline_service_start)
      arrival_with_insertion == current.earliest + next.travel
      baseline == IF last_rank < size THEN tw.baseline_service_start[last_rank]
                  ELSE tw.baseline_service_start[size - 1]
      delta == IF arrival_with_insertion > baseline
               THEN arrival_with_insertion - baseline ELSE 0
      pinned_ahead == {k \in last_rank..(n - 1) : At(route, k) \in in.pinned}
      step_allowed(k) ==
        LET base_k == IF k < size THEN tw.baseline_service_start[k] ELSE baseline
            w == first_open_tw(Jobs[At(route, k)].tws, base_k)
        IN IF w = 0 THEN 0
           ELSE Min(Jobs[At(route, k)].tws[w].end - base_k,
                    in.pinned_violation_budget)
  IN \A k \in pinned_ahead : delta <= step_allowed(k)

before_pinned_never_rejected(in, tw, last_rank) == FALSE

\* zero-budget rule of the range predicate: the range ends right before a
\* pinned step
zero_budget_before_pinned(in, tw, last_rank) ==
  /\ in.pinned_soft_timing /\ in.pinned_violation_budget = 0
  /\ last_rank < Len(tw.raw.route)
  /\ At(tw.raw.route, last_rank) \in in.pinned

tw_ok_waived_when_soft(in, current, next) ==
  in.pinned_soft_timing \/ current.earliest + next.travel <= next.latest

\* tw_ok of the range predicate: a false tw_ok ends in `return false` under
\* hard timing and in `return tw_ok` or `return false` under soft timing
tw_ok(in, current, next) ==
  current.earliest + next.travel <= next.latest

\* TWRoute::is_valid_addition_for_tw (range variant)
is_valid_addition_for_tw(in, tw, delivery, jobs, first_rank, last_rank) ==
  LET route == tw.raw.route
      n == Len(route)
      v == Vehicles[tw.v_rank]
      zero_budget == in.pinned_soft_timing /\ in.pinned_violation_budget = 0
      removal_prev == IF first_rank > 0 THEN Jobs[At(route, first_rank - 1)].index
                      ELSE start_index(v)
      current0 ==
        IF Len(jobs) > 0
        THEN previous_info(tw, jobs[1], first_rank) @@ [ok |-> TRUE]
        ELSE [ok |-> TRUE,
              earliest |-> IF first_rank > 0
                           THEN tw.earliest[first_rank - 1]
                                  + tw.action_time[first_rank - 1]
                           ELSE tw.v_start,
              travel |-> 0,
              location_index |-> removal_prev]
      next ==
        IF Len(jobs) > 0
        THEN next_info(tw, jobs[Len(jobs)], last_rank)
        ELSE [latest |-> IF last_rank < n THEN tw.latest[last_rank] ELSE tw.v_end,
              travel |->
                IF removal_prev = NoRank THEN 0
                ELSE IF last_rank < n
                     THEN duration(v, removal_prev, Jobs[At(route, last_rank)].index)
                     ELSE IF first_rank > 0 /\ v.has_end
                          THEN duration(v, removal_prev, v.end)
                          ELSE 0]
      after(current, nxt) ==
        IF ~current.ok THEN FALSE
        ELSE IF last_rank < n /\ ~tw_setup_after_ok(tw, last_rank, current, nxt)
             THEN FALSE
        ELSE IF ~tw_ok(in, current, nxt) THEN FALSE
        ELSE IF /\ in.pinned_soft_timing /\ last_rank < n
                /\ DOMAIN tw.baseline_service_start # {}
             THEN tw_soft_delay_ok(in, tw, last_rank, current, nxt)
        ELSE TRUE
  IN IF first_rank > n \/ last_rank > n \/ first_rank > last_rank THEN FALSE
     ELSE IF /\ zero_budget /\ first_rank = 0 /\ n > 0
             /\ \E k \in 1..n : route[k] \in in.pinned
          THEN FALSE
     ELSE IF Len(jobs) > 0 /\ ~tw_anchor_guards_ok(in, tw, jobs, first_rank, last_rank)
          THEN FALSE
     ELSE IF Len(jobs) = 0 /\ first_rank = 0 /\ last_rank = n
          THEN TRUE
     ELSE IF zero_budget_before_pinned(in, tw, last_rank)
          THEN FALSE
     ELSE \A current \in {tw_walk(v, jobs, Len(jobs), current0)}, nxt \in {next} :
            after(current, nxt)

\* TWRoute::is_valid_addition_for_tw (single job): the range variant on the
\* one-job range [job_rank] inserted at rank
is_valid_addition_for_tw_single(in, tw, job_rank, rank) ==
  is_valid_addition_for_tw(in, tw, Jobs[job_rank].delivery, <<job_rank>>, rank, rank)

----------------------------------------------------------------------------
(* RawRoute state machine: one route object of one vehicle, driven by the   *)
(* capacity predicates the way the local-search operators drive it.         *)

MaxCap == 2
MaxRouteLen == 3
MaxInsertLen == 2

Capacities == [AmountIdx -> 1..MaxCap]

\* job sequences without repetition, of length at most k
RECURSIVE SeqsUpTo(_)
SeqsUpTo(k) ==
  IF k = 0 THEN {<<>>}
  ELSE LET shorter == SeqsUpTo(k - 1)
       IN shorter \cup {Append(q, j) : q \in {x \in shorter : Len(x) = k - 1},
                                       j \in JobRanks}

InsertSeqs == {q \in SeqsUpTo(MaxInsertLen) : \A i, k \in 1..Len(q) : i # k => q[i] # q[k]}

\* the pinned boundaries of the vehicle and the route the solver seeds for them
RawScenarios ==
  {[pf |-> NoPinned, pl |-> NoPinned, seed |-> <<>>],
   [pf |-> PinnedJob(0), pl |-> NoPinned, seed |-> <<0>>],
   [pf |-> NoPinned, pl |-> PinnedJob(1), seed |-> <<1>>],
   [pf |-> PinnedShipment(2), pl |-> NoPinned, seed |-> <<2, 3>>],
   [pf |-> NoPinned, pl |-> PinnedShipment(6), seed |-> <<6, 7>>]}

NoOp == [op |-> "init", first_rank |-> 0, len |-> 0, pre_valid |-> TRUE, only_adds |-> TRUE]

RawAdd ==
  /\ Len(raw.route) < MaxRouteLen
  /\ \E j \in JobRanks, rank \in 0..Len(raw.route) :
       /\ Jobs[j].type = "SINGLE"
       /\ j \notin Range(raw.route)
       /\ is_valid_addition_for_capacity(raw, Jobs[j].pickup, Jobs[j].delivery,
                                         rank, rin.capacity)
       /\ raw' = add(raw, j, rank, rin.capacity)
       /\ rop' = [op |-> "add", first_rank |-> rank, len |-> 1,
                  pre_valid |-> CapacityValid(raw, rin.capacity),
                  only_adds |-> rop.only_adds]
  /\ UNCHANGED <<rin, budgetVars>>

RawReplace ==
  /\ \E first_rank \in 0..Len(raw.route) :
       \E last_rank \in first_rank..Len(raw.route) :
         \E jobs \in InsertSeqs :
           LET result == ReplaceRange(raw.route, jobs, first_rank, last_rank)
           IN /\ Len(result) <= MaxRouteLen
              /\ WellFormed(result)
              /\ is_valid_addition_for_capacity_inclusion(
                   raw, SingleDeliveries(jobs), jobs, first_rank, last_rank,
                   rin.capacity, rin.pf, rin.pl)
              /\ raw' = replace(raw, jobs, first_rank, last_rank, rin.capacity)
              /\ rop' = [op |-> "replace", first_rank |-> first_rank,
                         len |-> Len(jobs),
                         pre_valid |-> CapacityValid(raw, rin.capacity),
                         only_adds |-> FALSE]
  /\ UNCHANGED <<rin, budgetVars>>

RawRemove ==
  /\ \E rank \in 0..(Len(raw.route) - 1) :
       \E count \in 1..(Len(raw.route) - rank) :
         /\ WellFormed(ReplaceRange(raw.route, <<>>, rank, rank + count))
         /\ raw' = remove(raw, rank, count, rin.capacity)
         /\ rop' = [op |-> "remove", first_rank |-> rank, len |-> 0,
                    pre_valid |-> CapacityValid(raw, rin.capacity),
                    only_adds |-> FALSE]
  /\ UNCHANGED <<rin, budgetVars>>

NextRaw == RawAdd \/ RawReplace \/ RawRemove

InitRaw ==
  /\ \E capacity \in Capacities, sc \in RawScenarios :
       /\ rin = [capacity |-> capacity, pf |-> sc.pf, pl |-> sc.pl]
       /\ raw = set_route(RawRouteInit(capacity), sc.seed, capacity)
       /\ rop = [NoOp EXCEPT !.only_adds = (sc.seed = <<>>)]
  /\ inp = <<>> /\ sol = <<>> /\ pre = <<>> /\ pc = "idle" /\ ri = 0 /\ loc = <<>>
  /\ kept_routes = <<>> /\ extra_unassigned = <<>>
  /\ remove_from_unassigned_ids = {} /\ log = <<>>

SpecRaw == InitRaw /\ [][NextRaw]_vars

----------------------------------------------------------------------------
(* Claims on the RawRoute capacity predicates (checked under SpecRaw)       *)

SingleJobs == {j \in JobRanks : Jobs[j].type = "SINGLE"}

\* C9: on a route whose step loads are all within capacity, for every single
\* job j and every rank r <= n, is_valid_addition_for_capacity(j.pickup,
\* j.delivery, r) is true exactly when every step load of the route obtained
\* by add(j, r) is within capacity; and a route built from the empty route
\* only by adds that the predicate accepted has all its loads within capacity.
C9_AdditionForCapacityExact ==
  /\ CapacityValid(raw, rin.capacity) =>
       \A j \in SingleJobs, r \in 0..Len(raw.route) :
         is_valid_addition_for_capacity(raw, Jobs[j].pickup, Jobs[j].delivery,
                                        r, rin.capacity)
           <=> CapacityValid(add(raw, j, r, rin.capacity), rin.capacity)
  /\ rop.only_adds => CapacityValid(raw, rin.capacity)

\* C9 witness: a route of two validated adds on which the predicate accepts
\* one further single job at some rank and rejects another
C9_Witness ==
  /\ rop.op = "add" /\ rop.only_adds /\ Len(raw.route) >= 2
  /\ \E j \in SingleJobs, r \in 0..Len(raw.route) :
       is_valid_addition_for_capacity(raw, Jobs[j].pickup, Jobs[j].delivery,
                                      r, rin.capacity)
  /\ \E j \in SingleJobs, r \in 0..Len(raw.route) :
       ~is_valid_addition_for_capacity(raw, Jobs[j].pickup, Jobs[j].delivery,
                                       r, rin.capacity)

\* C10 as stated: after a replace that is_valid_addition_for_capacity_inclusion
\* accepted on a capacity-valid route, max_load() is within capacity.
C10_MaxLoadAfterReplace ==
  (rop.op = "replace" /\ rop.pre_valid) =>
     AmountLeq(max_load(raw), rin.capacity)

\* C10 amended: after a replace that is_valid_addition_for_capacity_inclusion
\* accepted on a capacity-valid route, the loads at the steps of the inserted
\* range (entering it, and after each inserted job) are within capacity.
C10_InsertedRangeLoads ==
  (rop.op = "replace" /\ rop.pre_valid) =>
     \A s \in rop.first_rank..(rop.first_rank + rop.len) :
        AmountLeq(raw.current_loads[s], rin.capacity)

\* C10 witness: an accepted replace of a non-empty range by two jobs on a
\* capacity-valid route
C10_Witness ==
  /\ rop.op = "replace" /\ rop.pre_valid /\ rop.len = 2
  /\ Len(raw.route) > rop.len
  /\ rop.first_rank > 0

----------------------------------------------------------------------------
(* repair_budget (budget_repair.cpp)                                        *)

\* solution steps of a route of vehicle v over the given job ranks
job_step(r) == [step_type |-> "JOB", job_type |-> Jobs[r].type, id |-> Jobs[r].id]

route_steps(v, ranks) ==
  (IF v.has_start THEN <<[step_type |-> "START", job_type |-> "NONE", id |-> 0]>>
   ELSE <<>>)
  \o [i \in 1..Len(ranks) |-> job_step(ranks[i])]
  \o (IF v.has_end THEN <<[step_type |-> "END", job_type |-> "NONE", id |-> 0]>>
      ELSE <<>>)

\* utils::format_route on a TWRoute of vehicle v_rank seeded with the job
\* ranks route, as far as the pass reads its result: vehicle id, steps, cost
format_route(v_rank, route) ==
  LET v == Vehicles[v_rank]
  IN [vehicle |-> v.id,
      steps |-> route_steps(v, route),
      cost |-> v.fixed_cost + route_eval_for_vehicle(v_rank, route)]

\* input.pickup_id_to_rank / delivery_id_to_rank / job_id_to_rank
step_rank(st) ==
  CHOOSE r \in JobRanks : Jobs[r].id = st.id /\ Jobs[r].type = st.job_type

\* the job ranks of the JOB steps of a route, in order
RECURSIVE steps_ranks(_)
steps_ranks(steps) ==
  IF Len(steps) = 0 THEN <<>>
  ELSE (IF Head(steps).step_type = "JOB" THEN <<step_rank(Head(steps))>> ELSE <<>>)
       \o steps_ranks(Tail(steps))

\* vehicle lookup by id; NoRank when no vehicle has that id
vehicle_rank_of(id) ==
  IF \E vi \in VehicleRanks : Vehicles[vi].id = id
  THEN CHOOSE vi \in VehicleRanks :
         /\ Vehicles[vi].id = id
         /\ \A vk \in VehicleRanks : Vehicles[vk].id = id => vi <= vk
  ELSE NoRank

\* compute_total_internal_cost with the action cost added whatever the flag
internal_cost_action_always(in, v_rank, ranks) ==
  route_eval_for_vehicle(v_rank, ranks) + Vehicles[v_rank].fixed_cost
    + action_cost_from_duration(Vehicles[v_rank],
                                route_action_time_duration(Vehicles[v_rank], ranks))

\* compute_total_internal_cost
compute_total_internal_cost(in, v_rank, ranks) ==
  LET v == Vehicles[v_rank]
      c == route_eval_for_vehicle(v_rank, ranks) + v.fixed_cost
  IN IF in.include_action_time_in_budget
     THEN c + action_cost_from_duration(v, route_action_time_duration(v, ranks))
     ELSE c

\* compute_route_budget_sum_from_ranks
RECURSIVE compute_route_budget_sum_from_ranks(_, _)
compute_route_budget_sum_from_ranks(in, ranks) ==
  IF Len(ranks) = 0 THEN 0
  ELSE (IF Jobs[Head(ranks)].type = "DELIVERY" THEN 0
        ELSE job_budget(in.budget, Head(ranks)))
       + compute_route_budget_sum_from_ranks(in, Tail(ranks))

\* has_any_budget
has_any_budget(in, ranks) ==
  \E i \in 1..Len(ranks) :
     Jobs[ranks[i]].type # "DELIVERY" /\ job_budget(in.budget, ranks[i]) > 0

\* unassigned_ids: the ids of the unassigned jobs
unassigned_ids(unassigned) == {Jobs[unassigned[i]].id : i \in 1..Len(unassigned)}

\* the densify candidate list in the order of sol.unassigned
RECURSIVE densify_cands(_, _, _)
densify_cands(in, unassigned, ids) ==
  IF Len(unassigned) = 0 THEN <<>>
  ELSE LET uj == Head(unassigned)
           rest == densify_cands(in, Tail(unassigned), ids)
       IN IF Jobs[uj].type = "PICKUP"
          THEN (IF Jobs[uj + 1].id \in ids
                THEN <<[job_rank |-> uj, is_pd |-> TRUE,
                        budget |-> job_budget(in.budget, uj)]>> \o rest
                ELSE rest)
          ELSE IF Jobs[uj].type = "SINGLE"
          THEN <<[job_rank |-> uj, is_pd |-> FALSE,
                  budget |-> job_budget(in.budget, uj)]>> \o rest
          ELSE rest

\* all orders of a set as sequences
RECURSIVE Perms(_)
Perms(S) ==
  IF S = {} THEN {<<>>}
  ELSE UNION {{<<x>> \o q : q \in Perms(S \ {x})} : x \in S}

\* std::ranges::sort(cands, greater, budget) is not a stable sort: any order
\* with non-increasing budgets may come out; then the list is cut to K
sorted_cands(cands, K) ==
  {SubSeq(q, 1, Min(K, Len(q))) :
     q \in {o \in Perms(Range(cands)) :
              \A i \in 1..Len(o) : \A k \in (i + 1)..Len(o) :
                 o[i].budget >= o[k].budget}}

\* the insertion positions tried for one candidate, in loop order:
\* (pickup_r, delivery_r) with pickup_r <= delivery_r for a shipment,
\* (rpos, rpos) for a single job
cand_trials(cand, n) ==
  LET pairs == IF cand.is_pd
               THEN {pq \in (0..n) \X (0..n) : pq[1] <= pq[2]}
               ELSE {<<r, r>> : r \in 0..n}
      before(x, y) == x[1] < y[1] \/ (x[1] = y[1] /\ x[2] < y[2])
      nth(i) == CHOOSE x \in pairs :
                  Cardinality({y \in pairs : before(y, x)}) = i - 1
  IN [i \in 1..Cardinality(pairs) |->
        [is_pd |-> cand.is_pd, job_rank |-> cand.job_rank,
         a |-> nth(i)[1], b |-> nth(i)[2]]]

RECURSIVE all_trials(_, _)
all_trials(cands, n) ==
  IF Len(cands) = 0 THEN <<>>
  ELSE cand_trials(Head(cands), n) \o all_trials(Tail(cands), n)

\* one shipment trial: lines 169-219 of the densify loop
pd_trial(in, v_rank, tw_cur, cur_cost, cur_budget, pr, pickup_r, delivery_r) ==
  LET v == Vehicles[v_rank]
      route == tw_cur.raw.route
      between == SubSeq(route, pickup_r + 1, delivery_r)
      modified_with_pd == <<pr>> \o between \o <<pr + 1>>
      md == SingleDeliveries(between)
      delivery_after == IF delivery_r = pickup_r THEN pickup_r + 1
                        ELSE delivery_r + 1
      delta_cost ==
        addition_cost_travel_pd(pr, v_rank, route, pickup_r, delivery_after)
          + (IF in.include_action_time_in_budget
             THEN action_cost_from_duration(
                    v, action_time_delta_pd_general(v, route, pickup_r,
                                                    delivery_r, pr))
             ELSE 0)
      new_cost == cur_cost + delta_cost
      new_budget == cur_budget + job_budget(in.budget, pr)
  IN [valid |->
        /\ is_valid_addition_for_capacity_inclusion(
             tw_cur.raw, md, modified_with_pd, pickup_r, delivery_r,
             v.capacity, in.pinned_first[v_rank], in.pinned_last[v_rank])
        /\ is_valid_addition_for_tw(in, tw_cur, md, modified_with_pd,
                                    pickup_r, delivery_r),
      feasible |-> new_budget >= new_cost,
      gain |-> new_budget - new_cost - (cur_budget - cur_cost),
      cand_ranks |-> InsertAt(InsertAt(route, pickup_r, pr), delivery_after, pr + 1),
      added |-> <<pr, pr + 1>>]

\* one single-job trial: lines 225-246 of the densify loop
single_trial(in, v_rank, tw_cur, cur_cost, cur_budget, jr, rpos) ==
  LET v == Vehicles[v_rank]
      route == tw_cur.raw.route
      delta_cost ==
        addition_cost_travel(jr, v_rank, route, rpos)
          + (IF in.include_action_time_in_budget
             THEN action_cost_from_duration(
                    v, action_time_delta_single(v, route, jr, rpos))
             ELSE 0)
      new_cost == cur_cost + delta_cost
      new_budget == cur_budget + job_budget(in.budget, jr)
  IN [valid |->
        /\ is_valid_addition_for_capacity(tw_cur.raw, Jobs[jr].pickup,
                                          Jobs[jr].delivery, rpos, v.capacity)
        /\ is_valid_addition_for_tw_single(in, tw_cur, jr, rpos),
      feasible |-> new_budget >= new_cost,
      gain |-> new_budget - new_cost - (cur_budget - cur_cost),
      cand_ranks |-> InsertAt(route, rpos, jr),
      added |-> <<jr>>]

NoBest == [gain |-> 0, ranks |-> <<>>, added |-> <<>>]

\* a loop that keeps the last insertion with a positive gain
densify_take_last(best, res) ==
  IF res.valid /\ res.feasible /\ res.gain > 0
  THEN [gain |-> res.gain, ranks |-> res.cand_ranks, added |-> res.added]
  ELSE best

\* best_gain / best_new_ranks / best_added after the first k trials
\* lines 211-219 and 240-246: a valid trial that makes the route feasible
\* with a larger gain than the best so far replaces it
densify_take(best, res) ==
  IF res.valid /\ res.feasible /\ res.gain > best.gain
  THEN [gain |-> res.gain, ranks |-> res.cand_ranks, added |-> res.added]
  ELSE best

RECURSIVE densify_best(_, _, _, _, _, _, _)
densify_best(in, v_rank, tw_cur, cur_cost, cur_budget, trials, k) ==
  IF k = 0 THEN NoBest
  ELSE
    LET t == trials[k]
    IN TheOne({densify_take(best, res) :
                 best \in {densify_best(in, v_rank, tw_cur, cur_cost, cur_budget,
                                        trials, k - 1)},
                 res \in {IF t.is_pd
                          THEN pd_trial(in, v_rank, tw_cur, cur_cost, cur_budget,
                                        t.job_rank, t.a, t.b)
                          ELSE single_trial(in, v_rank, tw_cur, cur_cost,
                                            cur_budget, t.job_rank, t.a)}})

\* the same with the pinned test of line 294 left out
removal_cand_ignoring_pins(in, ranks_local, p) ==
  LET jr == At(ranks_local, p)
      has_delivery == \E q \in 1..Len(ranks_local) : ranks_local[q] = jr + 1
  IN IF Jobs[jr].type = "SINGLE"
     THEN [ok |-> TRUE, removed |-> <<jr>>,
           cand |-> SelectSeq(ranks_local, LAMBDA x : x # jr)]
     ELSE IF Jobs[jr].type = "PICKUP" /\ has_delivery
     THEN [ok |-> TRUE, removed |-> <<jr, jr + 1>>,
           cand |-> SelectSeq(ranks_local, LAMBDA x : x # jr /\ x # jr + 1)]
     ELSE [ok |-> FALSE, removed |-> <<>>, cand |-> ranks_local]

\* the removal tried at position p of ranks_local (lines 292-333)
removal_cand(in, ranks_local, p) ==
  LET jr == At(ranks_local, p)
      has_delivery == \E q \in 1..Len(ranks_local) : ranks_local[q] = jr + 1
      skip == [ok |-> FALSE, removed |-> <<>>, cand |-> ranks_local]
  IN IF jr \in in.pinned THEN skip
     ELSE IF Jobs[jr].type = "SINGLE"
     THEN [ok |-> TRUE, removed |-> <<jr>>,
           cand |-> SelectSeq(ranks_local, LAMBDA x : x # jr)]
     ELSE IF Jobs[jr].type = "PICKUP"
     THEN (IF ~has_delivery \/ (jr + 1) \in in.pinned THEN skip
           ELSE [ok |-> TRUE, removed |-> <<jr, jr + 1>>,
                 cand |-> SelectSeq(ranks_local, LAMBDA x : x # jr /\ x # jr + 1)])
     ELSE skip

NoRemoval == [delta |-> 0, ranks |-> <<>>, removed |-> <<>>, found |-> FALSE]

\* best_delta / best_new_ranks / best_removed_pair after positions 0..k-1
RECURSIVE removal_best(_, _, _, _)
removal_best(in, v_rank, ranks_local, k) ==
  IF k = 0 THEN NoRemoval
  ELSE
    LET best == removal_best(in, v_rank, ranks_local, k - 1)
        rc == removal_cand(in, ranks_local, k - 1)
        delta ==
          (compute_route_budget_sum_from_ranks(in, rc.cand)
             - compute_total_internal_cost(in, v_rank, rc.cand))
          - (compute_route_budget_sum_from_ranks(in, ranks_local)
               - compute_total_internal_cost(in, v_rank, ranks_local))
    IN IF rc.ok /\ delta > best.delta
       THEN [delta |-> delta, ranks |-> rc.cand, removed |-> rc.removed,
             found |-> TRUE]
       ELSE best

\* a loop that goes on as long as the route is non-empty and over budget
greedy_continues_without_gain(in, v_rank, ranks_local) ==
  /\ Len(ranks_local) > 0
  /\ compute_route_budget_sum_from_ranks(in, ranks_local)
       < compute_total_internal_cost(in, v_rank, ranks_local)

\* the while loop of the greedy stage goes on: the route is non-empty, still
\* over budget and some removal improves the margin
greedy_continues(in, v_rank, ranks_local) ==
  /\ Len(ranks_local) > 0
  /\ compute_route_budget_sum_from_ranks(in, ranks_local)
       < compute_total_internal_cost(in, v_rank, ranks_local)
  /\ LET best == removal_best(in, v_rank, ranks_local, Len(ranks_local))
     IN best.delta > 0 /\ best.found

EmptyLoc ==
  [v_rank |-> NoRank, ranks |-> <<>>, cur_cost |-> 0, cur_budget |-> 0,
   ranks_local |-> <<>>, removed_ranks |-> <<>>]

\* end of one iteration of the route loop: the accumulators take their new
\* values and the loop moves to the next route, or leaves for the commit
NextRoute(kept, extra, removed_ids, entry) ==
  /\ kept_routes' = kept
  /\ extra_unassigned' = extra
  /\ remove_from_unassigned_ids' = removed_ids
  /\ log' = Append(log, entry)
  /\ ri' = ri + 1
  /\ pc' = IF ri + 1 < Len(sol.routes) THEN "route" ELSE "commit"
  /\ loc' = EmptyLoc

LogEntry(route, ranks, outcome, result, cost, budget) ==
  [vehicle |-> route.vehicle, ranks |-> ranks, outcome |-> outcome,
   result |-> result, cur_cost |-> cost, cur_budget |-> budget]

\* the test of line 120 with a strict comparison
budget_exceeds_cost(cur_budget, cur_cost) == cur_budget > cur_cost

\* the test of line 120: the budget covers the cost, equality included
budget_covers_cost(cur_budget, cur_cost) == cur_budget >= cur_cost

\* lines 55-123: vehicle lookup, job ranks, internal cost and budget of the
\* route; the route is kept as it is when no task carries a budget or when
\* the budget covers the cost
CheckRoute ==
  /\ pc = "route"
  /\ LET route == At(sol.routes, ri)
         v_rank == vehicle_rank_of(route.vehicle)
         ranks == steps_ranks(route.steps)
     IN IF v_rank = NoRank
        THEN NextRoute(kept_routes, extra_unassigned \o ranks,
                       remove_from_unassigned_ids,
                       LogEntry(route, ranks, "unknown_vehicle", <<>>, 0, 0))
        ELSE
          LET cur_cost == compute_total_internal_cost(inp, v_rank, ranks)
              cur_budget == compute_route_budget_sum_from_ranks(inp, ranks)
          IN IF ~has_any_budget(inp, ranks)
             THEN NextRoute(Append(kept_routes, route), extra_unassigned,
                            remove_from_unassigned_ids,
                            LogEntry(route, ranks, "kept_no_budget", ranks,
                                     cur_cost, cur_budget))
             ELSE IF budget_covers_cost(cur_budget, cur_cost)
             THEN NextRoute(Append(kept_routes, route), extra_unassigned,
                            remove_from_unassigned_ids,
                            LogEntry(route, ranks, "kept_feasible", ranks,
                                     cur_cost, cur_budget))
             ELSE /\ pc' = "densify"
                  /\ loc' = [v_rank |-> v_rank, ranks |-> ranks,
                             cur_cost |-> cur_cost, cur_budget |-> cur_budget,
                             ranks_local |-> <<>>, removed_ranks |-> <<>>]
                  /\ UNCHANGED <<ri, kept_routes, extra_unassigned,
                                 remove_from_unassigned_ids, log>>
  /\ UNCHANGED <<inp, sol, pre, rawVars>>

\* lines 125-267: try the top-K unassigned candidates at every position and
\* keep the insertion with the largest positive gain that makes the route
\* feasible; otherwise go on to the greedy removals
Densify ==
  /\ pc = "densify"
  /\ \E cands \in sorted_cands(densify_cands(inp, sol.unassigned,
                                             unassigned_ids(sol.unassigned)),
                               inp.budget_densify_candidates_k) :
     \E tw_cur \in {seed_relaxed_from_job_ranks(inp, loc.v_rank, loc.ranks)},
        trials \in {all_trials(cands, Len(loc.ranks))} :
     \E best \in {densify_best(inp, loc.v_rank, tw_cur, loc.cur_cost,
                               loc.cur_budget, trials, Len(trials))} :
          IF best.gain > 0 /\ Len(best.ranks) > 0
          THEN NextRoute(
                 Append(kept_routes,
                        format_route(loc.v_rank, best.ranks)),
                 extra_unassigned,
                 remove_from_unassigned_ids \cup {Jobs[j].id : j \in Range(best.added)},
                 LogEntry(At(sol.routes, ri), loc.ranks, "densified",
                          best.ranks, loc.cur_cost, loc.cur_budget))
          ELSE /\ pc' = "greedy"
               /\ loc' = [loc EXCEPT !.ranks_local = loc.ranks,
                                     !.removed_ranks = <<>>]
               /\ UNCHANGED <<ri, kept_routes, extra_unassigned,
                              remove_from_unassigned_ids, log>>
  /\ UNCHANGED <<inp, sol, pre, rawVars>>

\* one iteration of the while loop of lines 275-347 that removes a job or a
\* shipment
GreedyRemove ==
  /\ pc = "greedy"
  /\ greedy_continues(inp, loc.v_rank, loc.ranks_local)
  /\ LET best == removal_best(inp, loc.v_rank, loc.ranks_local,
                              Len(loc.ranks_local))
     IN loc' = [loc EXCEPT !.ranks_local = best.ranks,
                           !.removed_ranks = loc.removed_ranks \o best.removed]
  /\ UNCHANGED <<pc, ri, kept_routes, extra_unassigned,
                 remove_from_unassigned_ids, log, inp, sol, pre, rawVars>>

\* a final check that drops every route
final_check_never_keeps(ranks_local, final_budget, final_cost) == FALSE

\* the test of line 352: the trimmed route is non-empty and within budget
final_check_keeps(ranks_local, final_budget, final_cost) ==
  Len(ranks_local) > 0 /\ final_budget >= final_cost

\* loop exit and lines 349-376: keep the trimmed route if it is non-empty and
\* feasible, else drop the route and unassign all its jobs
FinalCheck ==
  /\ pc = "greedy"
  /\ ~greedy_continues(inp, loc.v_rank, loc.ranks_local)
  /\ LET final_cost == compute_total_internal_cost(inp, loc.v_rank, loc.ranks_local)
         final_budget == compute_route_budget_sum_from_ranks(inp, loc.ranks_local)
         route == At(sol.routes, ri)
     IN IF final_check_keeps(loc.ranks_local, final_budget, final_cost)
        THEN NextRoute(
               Append(kept_routes,
                      format_route(loc.v_rank, loc.ranks_local)),
               extra_unassigned \o loc.removed_ranks,
               remove_from_unassigned_ids,
               LogEntry(route, loc.ranks, "trimmed", loc.ranks_local,
                        loc.cur_cost, loc.cur_budget))
        ELSE NextRoute(kept_routes,
                       extra_unassigned \o steps_ranks(route.steps),
                       remove_from_unassigned_ids,
                       LogEntry(route, loc.ranks, "dropped", <<>>,
                                loc.cur_cost, loc.cur_budget))
  /\ UNCHANGED <<inp, sol, pre, rawVars>>

RECURSIVE routes_cost(_)
routes_cost(routes) ==
  IF Len(routes) = 0 THEN 0 ELSE Head(routes).cost + routes_cost(Tail(routes))

\* Summary(routes, unassigned, zero) followed by the totals of the routes
summary_of(routes, unassigned, computing_times) ==
  [routes |-> Len(routes), unassigned |-> Len(unassigned),
   cost |-> routes_cost(routes), computing_times |-> computing_times]

\* the routes and the unassigned list written, the summary left as it was
solution_with_stale_summary(s, kept, merged) ==
  [routes |-> kept, unassigned |-> merged, summary |-> s.summary]

\* lines 394-416: the kept routes and the merged unassigned list are moved
\* into the solution and the summary is rebuilt from them, the computing
\* times carried over
published_solution(s, kept, merged) ==
  [routes |-> kept, unassigned |-> merged,
   summary |-> summary_of(kept, merged, s.summary.computing_times)]

\* a guard of the post-pass bookkeeping that never lets it run
commit_never(kept, routes) == FALSE

\* the guard of the post-pass bookkeeping (line 380)
commit_needed(kept, routes) == Len(kept) # Len(routes)

\* lines 380-418: publish the kept routes, the merged unassigned list and
\* the rebuilt summary, then return
Commit ==
  /\ pc = "commit"
  /\ IF commit_needed(kept_routes, sol.routes)
     THEN LET merged_unassigned ==
                SelectSeq(sol.unassigned,
                          LAMBDA j : Jobs[j].id \notin remove_from_unassigned_ids)
                \o extra_unassigned
          IN sol' = published_solution(sol, kept_routes, merged_unassigned)
     ELSE sol' = sol
  /\ pc' = "done"
  /\ UNCHANGED <<inp, pre, ri, loc, kept_routes, extra_unassigned,
                 remove_from_unassigned_ids, log, rawVars>>

\* an exception leaves repair_budget while routes are processed (a container
\* allocation fails, TWRoute rejects the vehicle breaks): the locals are
\* destroyed, the solution is what it was
Abort ==
  /\ pc \in {"route", "densify", "greedy"}
  /\ pc' = "aborted"
  /\ loc' = EmptyLoc
  /\ kept_routes' = <<>>
  /\ extra_unassigned' = <<>>
  /\ remove_from_unassigned_ids' = {}
  /\ ri' = 0
  /\ log' = <<>>
  /\ UNCHANGED <<inp, sol, pre, rawVars>>

Next == CheckRoute \/ Densify \/ GreedyRemove \/ FinalCheck \/ Commit \/ Abort

----------------------------------------------------------------------------
(* The calls of repair_budget: an input and a solution of the solver for    *)
(* it.  Three tasks are to be served: the single jobs 0 and 1 and the       *)
(* shipment (2, 3); each is on the route of one of the two vehicles or      *)
(* unassigned.                                                              *)

MaxBudget == 2
MaxK == 2

\* Input::set_budget_densify_candidates_k: a configured 0 becomes 1
set_budget_densify_candidates_k(v) == IF v = 0 THEN 1 ELSE v

Tasks == {0, 1, 2}

\* the vehicles these solutions use; the third vehicle serves the
\* three-route solutions further down
SolutionVehicles == {0, 1}

task_jobs(t) == IF Jobs[t].type = "PICKUP" THEN {t, t + 1} ELSE {t}

\* sol.unassigned lists the jobs by rank
RECURSIVE ascending(_)
ascending(S) ==
  IF S = {} THEN <<>>
  ELSE LET m == CHOOSE x \in S : \A y \in S : x <= y
       IN <<m>> \o ascending(S \ {m})

\* the timing / pinning / eligibility set-ups of the input:
\* nothing special; one routed task pinned (free, first or last position,
\* hard or soft timing); one task restricted to one vehicle
Setups ==
  {[pinned_task |-> NoRank, position |-> "NONE", restricted |-> NoRank,
    vehicle |-> 0, soft |-> FALSE, violation_budget |-> 0]}
  \cup {[pinned_task |-> t, position |-> c[1], restricted |-> NoRank,
         vehicle |-> 0, soft |-> c[2], violation_budget |-> c[3]] :
          t \in Tasks,
          c \in {<<"NONE", FALSE, 0>>, <<"NONE", TRUE, 0>>, <<"NONE", TRUE, 1>>,
                 <<"FIRST", FALSE, 0>>, <<"LAST", FALSE, 0>>}}
  \cup {[pinned_task |-> NoRank, position |-> "NONE", restricted |-> t,
         vehicle |-> Vehicles[vi].id, soft |-> FALSE, violation_budget |-> 0] :
          t \in Tasks, vi \in SolutionVehicles}

pinned_boundary(t) ==
  IF Jobs[t].type = "PICKUP" THEN PinnedShipment(t) ELSE PinnedJob(t)

\* Input for a set-up, an assignment of the tasks and the tunables
make_input(su, asg, budget, flag, K) ==
  [budget |-> [j \in JobRanks |-> IF j \in Tasks THEN budget[j] ELSE 0],
   pinned |-> IF su.pinned_task = NoRank THEN {} ELSE task_jobs(su.pinned_task),
   pinned_first |->
     [vi \in VehicleRanks |->
        IF su.position = "FIRST" /\ asg[su.pinned_task] = vi
        THEN pinned_boundary(su.pinned_task) ELSE NoPinned],
   pinned_last |->
     [vi \in VehicleRanks |->
        IF su.position = "LAST" /\ asg[su.pinned_task] = vi
        THEN pinned_boundary(su.pinned_task) ELSE NoPinned],
   allowed_vehicles |->
     [j \in JobRanks |->
        IF su.restricted # NoRank /\ j \in task_jobs(su.restricted)
        THEN {su.vehicle} ELSE {}],
   include_action_time_in_budget |-> flag,
   budget_densify_candidates_k |-> K,
   pinned_soft_timing |-> su.soft,
   pinned_violation_budget |-> su.violation_budget]

\* Input::vehicle_ok_with_job as far as allowed_vehicles decides it
vehicle_ok_with_job(in, v_index, j_index) ==
  \/ in.allowed_vehicles[j_index] = {}
  \/ Vehicles[v_index].id \in in.allowed_vehicles[j_index]

\* the routes the solver may return for vehicle vi: the jobs of its tasks in
\* an order that respects pickup before delivery, the capacity, the pinned
\* boundaries and, under hard timing, the time windows
solver_routes(in, asg, vi) ==
  LET jobs == UNION {task_jobs(t) : t \in {x \in Tasks : asg[x] = vi}}
      v == Vehicles[vi]
      empty == seed_relaxed_from_job_ranks(in, vi, <<>>)
  IN {q \in Perms(jobs) :
        /\ WellFormed(q)
        /\ CapacityValid(set_route(RawRouteInit(v.capacity), q, v.capacity),
                         v.capacity)
        /\ \A i \in 1..Len(q) : vehicle_ok_with_job(in, vi, q[i])
        /\ in.pinned_first[vi].kind = "job" => q[1] = in.pinned_first[vi].job_rank
        /\ in.pinned_first[vi].kind = "shipment" =>
             q[1] = in.pinned_first[vi].pickup_rank /\ q[2] = in.pinned_first[vi].delivery_rank
        /\ in.pinned_last[vi].kind = "job" => q[Len(q)] = in.pinned_last[vi].job_rank
        /\ in.pinned_last[vi].kind = "shipment" =>
             q[Len(q) - 1] = in.pinned_last[vi].pickup_rank
               /\ q[Len(q)] = in.pinned_last[vi].delivery_rank
        /\ (~in.pinned_soft_timing /\ Len(q) > 0) =>
             is_valid_addition_for_tw(in, empty, SingleDeliveries(q), q, 0, 0)}

solution_of(in, asg, r0, r1) ==
  LET routes ==
        (IF Len(r0) > 0
         THEN <<format_route(0, r0)>> ELSE <<>>)
        \o (IF Len(r1) > 0
            THEN <<format_route(1, r1)>> ELSE <<>>)
      unassigned ==
        ascending(UNION {task_jobs(t) : t \in {x \in Tasks : asg[x] = NoRank}})
  IN [routes |-> routes, unassigned |-> unassigned,
      summary |-> summary_of(routes, unassigned, "t0")]

Init ==
  /\ \E su \in Setups, asg \in [Tasks -> SolutionVehicles \cup {NoRank}] :
       /\ su.pinned_task # NoRank => asg[su.pinned_task] # NoRank
       /\ LET base == make_input(su, asg, [t \in Tasks |-> 0], FALSE, MaxK)
          IN \E r0 \in solver_routes(base, asg, 0), r1 \in solver_routes(base, asg, 1) :
               LET s0 == solution_of(base, asg, r0, r1)
               IN \E budget \in [Tasks -> 0..MaxBudget], flag \in BOOLEAN,
                     K \in {set_budget_densify_candidates_k(v) : v \in 0..MaxK} :
                    /\ Len(s0.unassigned) < 2 => K = MaxK
                    /\ inp = make_input(su, asg, budget, flag, K)
                    /\ sol = s0
                    /\ pre = s0
                    /\ pc = IF Len(s0.routes) > 0 THEN "route" ELSE "commit"
  /\ ri = 0
  /\ loc = EmptyLoc
  /\ kept_routes = <<>>
  /\ extra_unassigned = <<>>
  /\ remove_from_unassigned_ids = {}
  /\ log = <<>>
  /\ raw = <<>> /\ rin = <<>> /\ rop = <<>>

Spec == Init /\ [][Next]_vars

----------------------------------------------------------------------------
(* Claims on repair_budget (checked under Spec)                             *)

\* reference quantities, written from the definitions of the specification
\* and not through the operators of the pass
RefRanks(route) == steps_ranks(route.steps)

RefBudgetSum(ranks) ==
  SeqSum([i \in 1..Len(ranks) |->
            IF Jobs[ranks[i]].type = "DELIVERY" THEN 0 ELSE inp.budget[ranks[i]]])

RefHasBudget(ranks) ==
  \E i \in 1..Len(ranks) :
     Jobs[ranks[i]].type # "DELIVERY" /\ inp.budget[ranks[i]] > 0

\* setup + service time of the route; the setup is omitted when the previous
\* location (the vehicle start for the first job) is the job's location
RefActionTime(v_rank, ranks) ==
  SeqSum([i \in 1..Len(ranks) |->
            LET prev == IF i = 1 THEN start_index(Vehicles[v_rank])
                        ELSE Jobs[ranks[i - 1]].index
            IN (IF prev = Jobs[ranks[i]].index THEN 0 ELSE Jobs[ranks[i]].setup)
                 + Jobs[ranks[i]].service])

RefTravelAndFixed(v_rank, ranks) ==
  route_eval_for_vehicle(v_rank, ranks) + Vehicles[v_rank].fixed_cost

RefInternalCost(v_rank, ranks) ==
  RefTravelAndFixed(v_rank, ranks)
    + (IF inp.include_action_time_in_budget
       THEN RefActionTime(v_rank, ranks) ELSE 0)

RefRouteFeasible(route) ==
  RefBudgetSum(RefRanks(route))
    >= RefInternalCost(vehicle_rank_of(route.vehicle), RefRanks(route))

RefMergedUnassigned ==
  SelectSeq(pre.unassigned, LAMBDA j : Jobs[j].id \notin remove_from_unassigned_ids)
  \o extra_unassigned

Returned == pc = "done"

\* C1: after repair_budget returns, every route of sol.routes that holds a
\* non-delivery task with budget > 0 has a budget sum >= its internal cost.
C1_ReturnedRoutesWithinBudget ==
  Returned =>
    \A i \in 1..Len(sol.routes) :
       RefHasBudget(RefRanks(sol.routes[i])) => RefRouteFeasible(sol.routes[i])

\* C2: when repair_budget changed the job list of a route (densify insertion
\* or greedy removal), the returned solution carries the changed routes, the
\* merged unassigned list and the rebuilt summary, also when no route was
\* dropped.
C2_ChangedRoutesPublished ==
  (Returned /\ \E i \in 1..Len(log) : log[i].outcome \in {"densified", "trimmed"})
    => /\ sol.routes = kept_routes
       /\ sol.unassigned = RefMergedUnassigned
       /\ sol.summary = summary_of(kept_routes, RefMergedUnassigned,
                                   pre.summary.computing_times)

\* C3: the greedy-removal stage never removes a pinned job nor a shipment
\* with a pinned half: after each removal step every pinned job of the
\* original route is still in the job list.
C3_GreedyKeepsPinned ==
  /\ pc = "greedy" =>
       /\ \A j \in Range(loc.ranks) : j \in inp.pinned => j \in Range(loc.ranks_local)
       /\ \A j \in Range(loc.removed_ranks) :
            /\ j \notin inp.pinned
            /\ Jobs[j].type = "PICKUP" => (j + 1) \notin inp.pinned
            /\ Jobs[j].type = "DELIVERY" => (j - 1) \notin inp.pinned
  /\ \A i \in 1..Len(log) :
       log[i].outcome = "trimmed" =>
         \A j \in Range(log[i].ranks) : j \in inp.pinned => j \in Range(log[i].result)

\* C3 witness: a removal step taken on a route that holds a pinned job
C3_Witness ==
  /\ pc = "greedy"
  /\ Len(loc.removed_ranks) > 0
  /\ \E j \in Range(loc.ranks) : j \in inp.pinned

\* C4: a route whose budget sum is >= its internal cost (equality included)
\* is kept with exactly its original steps: nothing inserted, nothing removed.
C4_FeasibleRouteUntouched ==
  /\ \A i \in 1..Len(log) :
       RefRouteFeasible(pre.routes[i]) =>
         /\ log[i].outcome \in {"kept_feasible", "kept_no_budget"}
         /\ kept_routes # <<>> /\ pre.routes[i] \in Range(kept_routes)
  /\ Returned =>
       \A i \in 1..Len(pre.routes) :
          RefRouteFeasible(pre.routes[i]) => pre.routes[i] \in Range(sol.routes)

\* C4 witness: a returned pass that republished the solution and kept a
\* route whose budget sum equals its internal cost
C4_Witness ==
  /\ Returned /\ sol # pre
  /\ \E i \in 1..Len(pre.routes) :
       /\ RefHasBudget(RefRanks(pre.routes[i]))
       /\ RefBudgetSum(RefRanks(pre.routes[i]))
            = RefInternalCost(vehicle_rank_of(pre.routes[i].vehicle),
                              RefRanks(pre.routes[i]))
       /\ pre.routes[i] \in Range(sol.routes)

\* the route of pre.routes[i] is gone from the returned solution and all its
\* jobs are unassigned, the summary counting them
RefDroppedAndUnassigned(i) ==
  /\ \A k \in 1..Len(sol.routes) : sol.routes[k].vehicle # pre.routes[i].vehicle
  /\ \A j \in Range(RefRanks(pre.routes[i])) : j \in Range(sol.unassigned)
  /\ sol.summary.routes = Len(sol.routes)
  /\ sol.summary.unassigned = Len(sol.unassigned)

\* the route of pre.routes[i] is below its internal cost and neither densify
\* nor the greedy removals produced a non-empty feasible route for it
RefNotRepaired(i) ==
  /\ ~RefRouteFeasible(pre.routes[i])
  /\ log[i].outcome \notin {"densified", "trimmed"}

\* C5 (as stated): a route whose budget sum is below its internal cost, and
\* for which neither densify nor greedy removal yields a non-empty feasible
\* route, is dropped and all its jobs are in sol.unassigned afterwards.
C5_InfeasibleRouteDropped ==
  Returned =>
    \A i \in 1..Len(pre.routes) : RefNotRepaired(i) => RefDroppedAndUnassigned(i)

\* C5 (amended): the same for a route on which at least one non-delivery task
\* has a budget > 0; a route without any budgeted task is kept as it is.
C5_BudgetedInfeasibleRouteDropped ==
  Returned =>
    \A i \in 1..Len(pre.routes) :
       /\ (RefNotRepaired(i) /\ RefHasBudget(RefRanks(pre.routes[i])))
            => RefDroppedAndUnassigned(i)
       /\ (RefNotRepaired(i) /\ ~RefHasBudget(RefRanks(pre.routes[i])))
            => pre.routes[i] \in Range(sol.routes)

\* C5 witness: a returned pass that dropped the route of a single non-pinned
\* job whose budget is its internal cost minus one, no candidate unassigned
C5_Witness ==
  /\ Returned
  /\ \E i \in 1..Len(pre.routes) :
       LET ranks == RefRanks(pre.routes[i])
       IN /\ Len(ranks) = 1 /\ ranks[1] \notin inp.pinned
          /\ pre.unassigned = <<>>
          /\ RefBudgetSum(ranks) > 0
          /\ RefBudgetSum(ranks)
               = RefInternalCost(vehicle_rank_of(pre.routes[i].vehicle), ranks) - 1
          /\ log[i].outcome = "dropped"
          /\ ranks[1] \in Range(sol.unassigned)
          /\ sol.summary.unassigned = 1

\* C6: the internal cost repair_budget works with is travel cost + fixed cost,
\* plus the setup + service time of the route (a setup omitted when the
\* previous location is the job's location) exactly when
\* include_action_time_in_budget is set; with the flag off, whether a route
\* is kept as it is depends on travel cost, fixed cost and budgets only.
C6_InternalCostFormula ==
  /\ pc \in {"densify", "greedy"} =>
       loc.cur_cost = RefInternalCost(loc.v_rank, loc.ranks)
  /\ \A i \in 1..Len(log) :
       LET ranks == RefRanks(pre.routes[i])
           v_rank == vehicle_rank_of(pre.routes[i].vehicle)
       IN /\ log[i].cur_cost = RefInternalCost(v_rank, ranks)
          /\ ~inp.include_action_time_in_budget =>
               (log[i].outcome \in {"kept_feasible", "kept_no_budget"}
                  <=> (~RefHasBudget(ranks)
                         \/ RefBudgetSum(ranks) >= RefTravelAndFixed(v_rank, ranks)))

\* C6 witness: with the flag set, a route with a budgeted task where one
\* setup is omitted (same location as the previous job) and another is not
C6_Witness ==
  /\ inp.include_action_time_in_budget
  /\ \E i \in 1..Len(log) :
       LET ranks == RefRanks(pre.routes[i])
           v_rank == vehicle_rank_of(pre.routes[i].vehicle)
       IN /\ RefHasBudget(ranks)
          /\ \E k \in 2..Len(ranks) :
               /\ Jobs[ranks[k]].index = Jobs[ranks[k - 1]].index
               /\ Jobs[ranks[k]].setup > 0
          /\ RefActionTime(v_rank, ranks) > 0
          /\ log[i].cur_cost
               = RefTravelAndFixed(v_rank, ranks) + RefActionTime(v_rank, ranks)

C8_DensifyRespectsEligibility ==
  /\ \A i \in 1..Len(log) :
       log[i].outcome = "densified" =>
         \A j \in Range(log[i].result) \ Range(log[i].ranks) :
            vehicle_ok_with_job(inp, vehicle_rank_of(log[i].vehicle), j)
  /\ Returned =>
       \A i \in 1..Len(sol.routes) :
          \A j \in Range(RefRanks(sol.routes[i])) :
             vehicle_ok_with_job(inp, vehicle_rank_of(sol.routes[i].vehicle), j)

----------------------------------------------------------------------------
(* RawRoute insertion gates without time windows (raw_route.h): exclusive   *)
(* tags, first-leg distance and pinned anchors.  The input record in holds  *)
(* tag_ids, tags (per job rank), limits (per tag id), the vehicle's         *)
(* has_start, start, steps_empty and max_first_leg_distance, and the        *)
(* pinned boundaries pf and pl of the vehicle.                              *)

\* Vehicle::eval(a, b).distance: two units of distance per unit of duration
eval_distance(a, b) == 2 * Durations[a][b]

\* the value of max_first_leg_distance that stands for "no bound"
DEFAULT_MAX_DISTANCE == 1000

\* Input::exclusive_tag_ids
exclusive_tag_ids(in, job_rank) == in.tags[job_rank]

\* _exclusive_tag_counts: count of tag t on the route (empty when the input
\* defines no exclusive tag)
exclusive_tag_counts(in, route) ==
  [t \in in.tag_ids |->
     Cardinality({k \in 1..Len(route) : t \in exclusive_tag_ids(in, route[k])})]

\* a tag gate that lets every job through
tags_never_checked(in, route, job_rank) == TRUE

\* single-job is_valid_addition_for_tw: exclusive-tag block
single_tags_ok(in, route, job_rank) ==
  (in.tag_ids # {}) =>
     \A tid \in exclusive_tag_ids(in, job_rank) :
        ~(exclusive_tag_counts(in, route)[tid] >= in.limits[tid])

\* a first-leg gate that lets every job through
first_leg_never_checked(in, job_rank, rank) == TRUE

\* single-job is_valid_addition_for_tw: first-leg block
single_first_leg_ok(in, job_rank, rank) ==
  (/\ rank = 0
   /\ in.has_start /\ in.steps_empty
   /\ in.max_first_leg_distance # DEFAULT_MAX_DISTANCE)
    => ~(eval_distance(in.start, Jobs[job_rank].index) > in.max_first_leg_distance)

\* a pinned-first gate that lets every job through
pinned_first_never_checked(route, job_rank, rank, pf) == TRUE

\* single-job is_valid_addition_for_tw: pinned-first block
single_pinned_first_ok(route, job_rank, rank, pf) ==
  CASE pf.kind = "job" -> ~(rank = 0 /\ job_rank # pf.job_rank)
    [] pf.kind = "shipment" -> ~(rank <= 1)
    [] OTHER -> TRUE

\* single-job is_valid_addition_for_tw: pinned-last block
single_pinned_last_ok(route, job_rank, rank, pl) ==
  LET n == Len(route) IN
  CASE pl.kind = "job" -> ~(rank = n /\ job_rank # pl.job_rank)
    [] pl.kind = "shipment" -> ~(rank >= (IF n >= 1 THEN n - 1 ELSE 0))
    [] OTHER -> TRUE

\* RawRoute::is_valid_addition_for_tw (single job)
RawRoute_is_valid_addition_for_tw(in, rr, job_rank, rank) ==
  /\ single_tags_ok(in, rr.route, job_rank)
  /\ single_first_leg_ok(in, job_rank, rank)
  /\ single_pinned_first_ok(rr.route, job_rank, rank, in.pf)
  /\ single_pinned_last_ok(rr.route, job_rank, rank, in.pl)

\* range is_valid_addition_for_tw: exclusive-tag block
range_tags_ok(in, route, jobs, first_rank, last_rank) ==
  LET inserted(t) ==
        Cardinality({k \in 1..Len(jobs) : t \in exclusive_tag_ids(in, jobs[k])})
      inserted_unique_tids == {t \in in.tag_ids : inserted(t) > 0}
      stop == Min(Len(route), last_rank)
      removed(t) ==
        Cardinality({r \in Min(first_rank, stop)..(stop - 1) :
                       t \in exclusive_tag_ids(in, At(route, r))})
      new_total(t) == exclusive_tag_counts(in, route)[t] - removed(t) + inserted(t)
  IN (in.tag_ids # {}) =>
       /\ \A t \in inserted_unique_tids : ~(inserted(t) > in.limits[t])
       /\ \A t \in inserted_unique_tids : ~(new_total(t) > in.limits[t])

\* range is_valid_addition_for_tw: first-leg block
range_first_leg_ok(in, jobs, first_rank) ==
  (/\ first_rank = 0 /\ Len(jobs) > 0
   /\ in.has_start /\ in.steps_empty
   /\ in.max_first_leg_distance # DEFAULT_MAX_DISTANCE)
    => ~(eval_distance(in.start, Jobs[jobs[1]].index) > in.max_first_leg_distance)

\* RawRoute::is_valid_addition_for_tw (range); its pinned-first and
\* pinned-last blocks are, test for test, those of
\* is_valid_addition_for_capacity_inclusion
RawRoute_is_valid_addition_for_tw_range(in, rr, jobs, first_rank, last_rank) ==
  /\ range_tags_ok(in, rr.route, jobs, first_rank, last_rank)
  /\ range_first_leg_ok(in, jobs, first_rank)
  /\ inclusion_pinned_first_ok(rr.route, jobs, first_rank, last_rank, in.pf)
  /\ inclusion_pinned_last_ok(rr.route, jobs, first_rank, last_rank, in.pl)

----------------------------------------------------------------------------
(* State machine of the gates: one route of one vehicle; the solver seeds   *)
(* it with set_route and edits it with add and replace after the gate of    *)
(* the edit answered true.  rop records the last edit, whether the pinned   *)
(* boundaries of the vehicle were in place on the route it was applied to,  *)
(* and whether every edit since the route was seeded went through           *)
(* is_valid_addition_for_tw.                                                *)

TaggedJobs ==
  [j \in JobRanks |->
     CASE j = 0 -> {0}
       [] j = 4 -> {0}
       [] j = 5 -> {0, 1}
       [] j = 2 -> {1}
       [] OTHER -> {}]

TagScenarios ==
  {[tag_ids |-> {}, tags |-> [j \in JobRanks |-> {}], limits |-> <<>>],
   [tag_ids |-> {0, 1}, tags |-> TaggedJobs, limits |-> [t \in {0, 1} |-> 1]],
   [tag_ids |-> {0, 1}, tags |-> TaggedJobs,
    limits |-> [t \in {0, 1} |-> IF t = 0 THEN 2 ELSE 1]]}

FirstLegBound == 3

LegScenarios ==
  {[has_start |-> TRUE, steps_empty |-> TRUE, max_first_leg_distance |-> FirstLegBound],
   [has_start |-> TRUE, steps_empty |-> TRUE, max_first_leg_distance |-> DEFAULT_MAX_DISTANCE],
   [has_start |-> FALSE, steps_empty |-> TRUE, max_first_leg_distance |-> FirstLegBound],
   [has_start |-> TRUE, steps_empty |-> FALSE, max_first_leg_distance |-> FirstLegBound]}

GateInput(sc, tg, leg) ==
  [capacity |-> Vehicles[0].capacity, pf |-> sc.pf, pl |-> sc.pl,
   tag_ids |-> tg.tag_ids, tags |-> tg.tags, limits |-> tg.limits,
   has_start |-> leg.has_start, start |-> Vehicles[0].start,
   steps_empty |-> leg.steps_empty,
   max_first_leg_distance |-> leg.max_first_leg_distance]

\* the position contract of the pinned boundaries on a route
RefPositionContract(in, route) ==
  LET n == Len(route) IN
  /\ in.pf.kind = "job" => n >= 1 /\ At(route, 0) = in.pf.job_rank
  /\ in.pl.kind = "job" => n >= 1 /\ At(route, n - 1) = in.pl.job_rank
  /\ in.pf.kind = "shipment" =>
        /\ n >= 2
        /\ At(route, 0) = in.pf.pickup_rank
        /\ At(route, 1) = in.pf.delivery_rank
  /\ in.pl.kind = "shipment" =>
        /\ n >= 2
        /\ At(route, n - 2) = in.pl.pickup_rank
        /\ At(route, n - 1) = in.pl.delivery_rank

\* number of jobs of the route that carry tag t
RefTagCount(in, route, t) ==
  Cardinality({k \in 1..Len(route) : t \in in.tags[route[k]]})

\* _exclusive_tag_limits covers the route: a limit is 1 unless the seeded
\* workload holds the tag more often, and is then raised to that count
limits_cover(in, route) ==
  \A t \in in.tag_ids : exclusive_tag_counts(in, route)[t] <= in.limits[t]

GateOp(op, before, gated) ==
  [op |-> op,
   anchored |-> RefPositionContract(rin, before),
   gated |-> gated]

\* the jobs the solver may assign to the vehicle
GateJobs == {0, 2, 3, 4, 5, 6, 7}

GateSeqs == {q \in InsertSeqs : Range(q) \subseteq GateJobs}

\* the pinned boundaries of the vehicle, its tags and its first-leg bound
GateScenarios ==
  LET pins == {[pf |-> NoPinned, pl |-> NoPinned],
               [pf |-> PinnedJob(0), pl |-> NoPinned],
               [pf |-> NoPinned, pl |-> PinnedJob(4)],
               [pf |-> PinnedShipment(2), pl |-> NoPinned],
               [pf |-> NoPinned, pl |-> PinnedShipment(6)]}
      untagged == CHOOSE tg \in TagScenarios : tg.tag_ids = {}
      unbounded == CHOOSE leg \in LegScenarios :
                     leg.max_first_leg_distance = DEFAULT_MAX_DISTANCE
  IN {GateInput(sc, untagged, unbounded) : sc \in pins}
       \cup {GateInput([pf |-> NoPinned, pl |-> NoPinned], tg, unbounded) :
                tg \in TagScenarios}
       \cup {GateInput([pf |-> NoPinned, pl |-> NoPinned], untagged, leg) :
                leg \in LegScenarios}

\* a route a caller may hand to set_route, or obtain from add and replace
GateRoute(q) ==
  Len(q) <= MaxRouteLen /\ Range(q) \subseteq GateJobs /\ WellFormed(q)

\* the solver seeds the fresh route once
GateSetRoute ==
  /\ rop.op = "init"
  /\ \E r \in SeqsUpTo(MaxRouteLen) :
       /\ GateRoute(r)
       /\ limits_cover(rin, r)
       /\ \E seeded \in {set_route(raw, r, rin.capacity)} :
            /\ CapacityValid(seeded, rin.capacity)
            /\ raw' = seeded
       /\ rop' = GateOp("set_route", raw.route, TRUE)
  /\ UNCHANGED <<rin, budgetVars>>

GateAdd ==
  /\ \E j \in GateJobs, rank \in 0..Len(raw.route) :
       /\ GateRoute(InsertAt(raw.route, rank, j))
       /\ RawRoute_is_valid_addition_for_tw(rin, raw, j, rank)
       /\ \E added \in {add(raw, j, rank, rin.capacity)} :
            /\ CapacityValid(added, rin.capacity)
            /\ raw' = added
       /\ rop' = GateOp("add", raw.route, rop.gated)
  /\ UNCHANGED <<rin, budgetVars>>

GateReplace ==
  /\ \E jobs \in GateSeqs :
       \E first_rank \in 0..Len(raw.route) :
         \E last_rank \in first_rank..Len(raw.route) :
           /\ GateRoute(ReplaceRange(raw.route, jobs, first_rank, last_rank))
           /\ RawRoute_is_valid_addition_for_tw_range(rin, raw, jobs, first_rank, last_rank)
           /\ \E replaced \in {replace(raw, jobs, first_rank, last_rank, rin.capacity)} :
                /\ CapacityValid(replaced, rin.capacity)
                /\ raw' = replaced
           /\ rop' = GateOp("replace", raw.route, rop.gated)
  /\ UNCHANGED <<rin, budgetVars>>

GateReplaceInclusion ==
  /\ \E jobs \in GateSeqs :
       \E first_rank \in 0..Len(raw.route) :
         \E last_rank \in first_rank..Len(raw.route) :
           /\ GateRoute(ReplaceRange(raw.route, jobs, first_rank, last_rank))
           /\ is_valid_addition_for_capacity_inclusion(
                raw, SingleDeliveries(jobs), jobs, first_rank, last_rank,
                rin.capacity, rin.pf, rin.pl)
           /\ raw' = replace(raw, jobs, first_rank, last_rank, rin.capacity)
           /\ rop' = GateOp("replace_inclusion", raw.route, FALSE)
  /\ UNCHANGED <<rin, budgetVars>>

NextGate == GateSetRoute \/ GateAdd \/ GateReplace \/ GateReplaceInclusion

InitGate ==
  /\ \E in \in GateScenarios :
       /\ rin = in
       /\ raw = RawRouteInit(Vehicles[0].capacity)
       /\ rop = [op |-> "init", anchored |-> FALSE, gated |-> TRUE]
  /\ inp = <<>> /\ sol = <<>> /\ pre = <<>> /\ pc = "idle" /\ ri = 0 /\ loc = <<>>
  /\ kept_routes = <<>> /\ extra_unassigned = <<>>
  /\ remove_from_unassigned_ids = {} /\ log = <<>>

SpecGate == InitGate /\ [][NextGate]_vars

----------------------------------------------------------------------------
(* Claims on the RawRoute insertion gates (checked under SpecGate)          *)

\* C11: when the vehicle has a pinned-first (resp. pinned-last) single job J
\* and the route has J at its head (resp. tail), the route after an add
\* accepted by the single-job is_valid_addition_for_tw, or after a replace
\* accepted by the range is_valid_addition_for_tw (removals included), is
\* non-empty and still has J at its head (resp. tail).
C11_PinnedJobStaysInPlace ==
  (/\ rin.pf.kind = "job" \/ rin.pl.kind = "job"
   /\ rop.op \in {"add", "replace"}
   /\ rop.anchored)
    => /\ Len(raw.route) >= 1
       /\ rin.pf.kind = "job" => At(raw.route, 0) = rin.pf.job_rank
       /\ rin.pl.kind = "job" => At(raw.route, Len(raw.route) - 1) = rin.pl.job_rank

\* an accepted add next to a pinned-first job that was, and is, at the head
C11_Witness ==
  /\ rin.pf.kind = "job"
  /\ rop.op = "add"
  /\ rop.anchored
  /\ Len(raw.route) >= 2
  /\ At(raw.route, 0) = rin.pf.job_rank

\* C12: when the vehicle has a pinned-first shipment (P, D) and the route
\* starts with P, D, the route after an add accepted by the single-job
\* is_valid_addition_for_tw, or after a replace accepted by the range
\* is_valid_addition_for_tw or by is_valid_addition_for_capacity_inclusion
\* (removals included), still starts with P, D; symmetrically the route of a
\* vehicle with a pinned-last shipment still ends with P, D.
C12_PinnedShipmentStaysInPlace ==
  (/\ rin.pf.kind = "shipment" \/ rin.pl.kind = "shipment"
   /\ rop.op \in {"add", "replace", "replace_inclusion"}
   /\ rop.anchored)
    => LET n == Len(raw.route) IN
       /\ n >= 2
       /\ rin.pf.kind = "shipment" =>
            /\ At(raw.route, 0) = rin.pf.pickup_rank
            /\ At(raw.route, 1) = rin.pf.delivery_rank
       /\ rin.pl.kind = "shipment" =>
            /\ At(raw.route, n - 2) = rin.pl.pickup_rank
            /\ At(raw.route, n - 1) = rin.pl.delivery_rank

C14_FirstLegBound ==
  LET n == Len(raw.route)
      far(j) == eval_distance(rin.start, Jobs[j].index) > rin.max_first_leg_distance
      unbounded == [rin EXCEPT !.max_first_leg_distance = DEFAULT_MAX_DISTANCE]
  IN (/\ rin.has_start /\ rin.steps_empty
      /\ rin.max_first_leg_distance # DEFAULT_MAX_DISTANCE)
      => /\ \A j \in GateJobs :
              far(j) => ~RawRoute_is_valid_addition_for_tw(rin, raw, j, 0)
         /\ \A jobs \in GateSeqs \ {<<>>}, last_rank \in 0..n :
              far(jobs[1]) =>
                 ~RawRoute_is_valid_addition_for_tw_range(rin, raw, jobs, 0, last_rank)
         /\ \A j \in GateJobs, rank \in 1..n :
              RawRoute_is_valid_addition_for_tw(rin, raw, j, rank)
                = RawRoute_is_valid_addition_for_tw(unbounded, raw, j, rank)
         /\ \A jobs \in GateSeqs, first_rank \in 1..n :
              \A last_rank \in first_rank..n :
                 RawRoute_is_valid_addition_for_tw_range(rin, raw, jobs, first_rank, last_rank)
                   = RawRoute_is_valid_addition_for_tw_range(unbounded, raw, jobs,
                                                             first_rank, last_rank)

\* a bounded vehicle took a second job through the gate while a job farther
\* from the start than the bound is still outside the route
C14_Witness ==
  /\ rin.has_start /\ rin.steps_empty
  /\ rin.max_first_leg_distance = FirstLegBound
  /\ rop.op = "add"
  /\ Len(raw.route) >= 2
  /\ \E j \in GateJobs \ Range(raw.route) :
       eval_distance(rin.start, Jobs[j].index) > FirstLegBound

----------------------------------------------------------------------------
(* Round trip of RawRoute::add and RawRoute::remove (checked under SpecRaw) *)

\* C18: for every RawRoute state, job j and rank r <= n, add(j, r) followed
\* by remove(r, 1) restores the route and every derived value (the forward
\* and backward sums, pd_loads, current_loads, the peaks and both margins),
\* also when the route was empty before the add.
C18_AddThenRemoveRestores ==
  \A j \in SingleJobs \ Range(raw.route), rank \in 0..Len(raw.route) :
     is_valid_addition_for_capacity(raw, Jobs[j].pickup, Jobs[j].delivery,
                                    rank, rin.capacity)
       => \A added \in {add(raw, j, rank, rin.capacity)} :
             remove(added, rank, 1, rin.capacity) = raw


----------------------------------------------------------------------------
(* TWRoute::replace and the date propagation it ends with (tw_route.cpp),   *)
(* for vehicles without breaks.  Dates are vectors indexed from 0, as in    *)
(* the code.                                                                *)

\* TWRoute::TWRoute: the route of a vehicle before any job is added
TWRouteInit(v_rank) ==
  [raw |-> RawRouteInit(Vehicles[v_rank].capacity),
   v_rank |-> v_rank,
   v_start |-> Vehicles[v_rank].tw.start,
   v_end |-> Vehicles[v_rank].tw.end,
   earliest |-> <<>>,
   latest |-> <<>>,
   action_time |-> <<>>,
   breaks_at_rank |-> [i \in 0..0 |-> 0],
   breaks_counts |-> [i \in 0..0 |-> 0],
   baseline_service_start |-> <<>>,
   is_pinned_step |-> <<>>]

\* std::find_if(tws.rbegin(), tws.rend(), tw.start <= t): position of the
\* last time window started at t, 0 if none
last_started_tw(tws, t) ==
  IF \E k \in 1..Len(tws) : tws[k].start <= t
  THEN CHOOSE k \in 1..Len(tws) :
         /\ tws[k].start <= t
         /\ \A m \in (k + 1)..Len(tws) : tws[m].start > t
  ELSE 0

\* TWRoute::fwd_update_action_time_from
fwd_update_action_time_from(route, action_time, rank) ==
  [i \in DOMAIN action_time |->
     IF i > rank
     THEN job_action_time(Jobs[At(route, i)], Jobs[At(route, i - 1)].index)
     ELSE action_time[i]]

\* the loop of TWRoute::fwd_update_earliest_from at rank i
RECURSIVE fwd_earliest_loop(_, _, _, _, _, _)
fwd_earliest_loop(v, route, action_time, earliest, i, current_earliest) ==
  IF i >= Len(route) THEN earliest
  ELSE LET next_j == Jobs[At(route, i)]
           arrival == current_earliest + action_time[i - 1]
                        + duration(v, Jobs[At(route, i - 1)].index, next_j.index)
       IN TheOne({
            IF w = 0
            THEN [earliest EXCEPT ![i] = next_j.tws[Len(next_j.tws)].end]
            ELSE TheOne({
                   IF clamped = earliest[i] THEN earliest
                   ELSE fwd_earliest_loop(v, route, action_time,
                                          [earliest EXCEPT ![i] = clamped],
                                          i + 1, clamped) :
                   clamped \in {Max(a, next_j.tws[w].start)}}) :
            a \in {arrival}, w \in {first_open_tw(next_j.tws, arrival)}})

\* TWRoute::fwd_update_earliest_from
fwd_update_earliest_from(v, route, action_time, earliest, rank) ==
  fwd_earliest_loop(v, route, action_time, earliest, rank + 1, earliest[rank])

\* the loop of TWRoute::bwd_update_latest_from at next_i
RECURSIVE bwd_latest_loop(_, _, _, _, _, _, _)
bwd_latest_loop(v, route, action_time, earliest, latest, next_i, current_latest) ==
  IF next_i = 0 THEN latest
  ELSE LET previous_j == Jobs[At(route, next_i - 1)]
           remaining_travel_time ==
             IF next_i < Len(route)
             THEN duration(v, previous_j.index, Jobs[At(route, next_i)].index)
             ELSE 0
           gap == action_time[next_i - 1] + remaining_travel_time
           lowered == IF gap > current_latest THEN 0 ELSE current_latest - gap
       IN TheOne({
            IF w = 0
            THEN TheOne({bwd_latest_loop(v, route, action_time, earliest,
                                         [latest EXCEPT ![next_i - 1] = e],
                                         next_i - 1, e) :
                           e \in {previous_j.tws[Len(previous_j.tws)].end}})
            ELSE TheOne({
                   IF c = latest[next_i - 1] THEN latest
                   ELSE bwd_latest_loop(v, route, action_time, earliest,
                                        [latest EXCEPT ![next_i - 1] = c],
                                        next_i - 1, c) :
                   c \in {Max(Min(l, previous_j.tws[w].end),
                              earliest[next_i - 1])}}) :
            l \in {lowered}, w \in {last_started_tw(previous_j.tws, lowered)}})

\* TWRoute::bwd_update_latest_from
bwd_update_latest_from(v, route, action_time, earliest, latest, rank) ==
  LET r == IF rank >= Len(route) THEN Len(route) - 1 ELSE rank
  IN bwd_latest_loop(v, route, action_time, earliest, latest, r, latest[r])

\* TWRoute::update_last_latest_date: the new value of latest.back()
update_last_latest_date(tw, v, route, action_time) ==
  LET n == Len(route)
      j == Jobs[At(route, n - 1)]
      travel == IF v.has_end THEN duration(v, j.index, v.end) ELSE 0
      next_latest == tw.v_end - (action_time[n - 1] + travel)
      w == last_started_tw(j.tws, next_latest)
  IN Min(next_latest, j.tws[w].end)

\* TWRoute::replace, initialisation of current (the step before the range)
replace_current(tw, jobs, first_rank, last_rank) ==
  LET v == Vehicles[tw.v_rank]
      route == tw.raw.route
  IN IF Len(jobs) > 0
     THEN previous_info(tw, jobs[1], first_rank) @@ [ok |-> TRUE]
     ELSE IF first_rank > 0
          THEN [ok |-> TRUE,
                earliest |-> tw.earliest[first_rank - 1]
                               + tw.action_time[first_rank - 1],
                travel |-> 0,
                location_index |-> Jobs[At(route, first_rank - 1)].index]
          ELSE [ok |-> TRUE, earliest |-> tw.v_start, travel |-> 0,
                location_index |->
                  IF last_rank < Len(route) THEN start_index(v) ELSE NoRank]

\* TWRoute::replace, initialisation of next (the step after the range)
replace_next(tw, jobs, first_rank, last_rank) ==
  LET v == Vehicles[tw.v_rank]
      route == tw.raw.route
      n == Len(route)
  IN IF Len(jobs) > 0
     THEN next_info(tw, jobs[Len(jobs)], last_rank)
     ELSE [latest |-> IF last_rank < n THEN tw.latest[last_rank] ELSE tw.v_end,
           travel |->
             IF first_rank > 0
             THEN (IF last_rank < n
                   THEN duration(v, Jobs[At(route, first_rank - 1)].index,
                                 Jobs[At(route, last_rank)].index)
                   ELSE IF v.has_end
                        THEN duration(v, Jobs[At(route, first_rank - 1)].index,
                                      v.end)
                        ELSE 0)
             ELSE IF last_rank < n /\ v.has_start
                  THEN duration(v, v.start, Jobs[At(route, last_rank)].index)
                  ELSE 0]

\* TWRoute::replace after the vectors are resized and the inserted jobs are
\* written: route is the new route, earliest, latest and action_time the
\* vectors at that point, current the state after the last inserted job
replace_propagate(tw, route, earliest, latest, action_time, current, next, first_rank, current_job_rank) ==
  LET v == Vehicles[tw.v_rank]
      n == Len(route)
      replace_last_jobs == current_job_rank = n
      j == Jobs[At(route, current_job_rank)]
      new_action_time == job_action_time(j, current.location_index)
      current_action_time_changed ==
        ~replace_last_jobs /\ new_action_time # action_time[current_job_rank]
      do_update_last_latest_date ==
        \/ replace_last_jobs
        \/ current_action_time_changed /\ current_job_rank = n - 1
      valid_latest_date_rank ==
        IF replace_last_jobs THEN n - 1
        ELSE IF current_action_time_changed /\ current_job_rank # n - 1
             THEN current_job_rank + 1
             ELSE current_job_rank
      valid_earliest_date_rank ==
        IF first_rank = 0 THEN 0
        ELSE IF ~replace_last_jobs /\ current_job_rank > 0
             THEN Min(first_rank - 1, current_job_rank - 1)
             ELSE first_rank - 1
      latest_a ==
        IF current_action_time_changed /\ current_job_rank # n - 1
        THEN [latest EXCEPT ![current_job_rank] = 0] ELSE latest
      first_arrival == current.earliest + next.travel
      first_tw == first_open_tw(j.tws, first_arrival)
      earliest_a ==
        IF ~replace_last_jobs /\ current_job_rank = 0
        THEN [earliest EXCEPT ![0] = Max(first_arrival, j.tws[first_tw].start)]
        ELSE earliest
      action_time_a ==
        IF ~replace_last_jobs /\ current_job_rank = 0
        THEN [action_time EXCEPT ![0] = new_action_time]
        ELSE action_time
      reset_from == Min(n, valid_earliest_date_rank + 1)
      reset == ~replace_last_jobs /\ reset_from < n
      earliest_b == [i \in DOMAIN earliest |->
                       IF reset /\ i >= reset_from THEN tw.v_end
                       ELSE earliest_a[i]]
      latest_b == [i \in DOMAIN latest |->
                     IF reset /\ i >= reset_from THEN tw.v_end ELSE latest_a[i]]
      action_time_c ==
        IF reset
        THEN fwd_update_action_time_from(route, action_time_a,
                                         valid_earliest_date_rank)
        ELSE action_time_a
  IN TheOne({
       TheOne({
         TheOne({
           [earliest |-> ec, action_time |-> ac,
            latest |-> bwd_update_latest_from(v, route, ac, ec, ld,
                                              valid_latest_date_rank)] :
           ld \in {IF do_update_last_latest_date
                   THEN [lb EXCEPT ![n - 1] =
                           update_last_latest_date(tw, v, route, ac)]
                   ELSE lb}}) :
         ec \in {IF reset
                 THEN fwd_update_earliest_from(v, route, ac, eb,
                                               valid_earliest_date_rank)
                 ELSE eb}}) :
       eb \in {earliest_b}, lb \in {latest_b}, ac \in {action_time_c}})

\* TWRoute::replace
tw_replace(in, tw, jobs, first_rank, last_rank) ==
  LET v == Vehicles[tw.v_rank]
      old == tw.raw.route
      add_count == Len(jobs)
      erase_count == last_rank - first_rank
      current_job_rank == first_rank + add_count
      route == ReplaceRange(old, jobs, first_rank, last_rank)
      n == Len(route)
      kept(vec, i, inserted) ==
        IF i < first_rank THEN vec[i]
        ELSE IF i < current_job_rank THEN inserted
        ELSE vec[i - add_count + erase_count]
  IN TheOne({
       TheOne({
         TheOne({
           [tw EXCEPT
              !.raw = replace(tw.raw, jobs, first_rank, last_rank, v.capacity),
              !.earliest = dates.earliest,
              !.latest = dates.latest,
              !.action_time = dates.action_time,
              !.breaks_at_rank = [i \in 0..n |-> 0],
              !.breaks_counts = [i \in 0..n |-> 0]] :
           dates \in {IF n = 0
                      THEN [earliest |-> <<>>, latest |-> <<>>,
                            action_time |-> <<>>]
                      ELSE replace_propagate(
                             tw, route,
                             [i \in 0..(n - 1) |->
                                kept(tw.earliest, i,
                                     walk[i - first_rank + 1].earliest
                                       - walk[i - first_rank + 1].action)],
                             [i \in 0..(n - 1) |-> kept(tw.latest, i, 0)],
                             [i \in 0..(n - 1) |->
                                kept(tw.action_time, i,
                                     walk[i - first_rank + 1].action)],
                             walk[add_count], next,
                             first_rank, current_job_rank)}}) :
         walk \in {[k \in 0..add_count |->
                      IF k = 0 THEN current0 @@ [action |-> 0]
                      ELSE tw_walk(v, jobs, k, current0)
                             @@ [action |->
                                   job_action_time(
                                     Jobs[jobs[k]],
                                     tw_walk(v, jobs, k - 1, current0)
                                       .location_index)]]}}) :
       current0 \in {replace_current(tw, jobs, first_rank, last_rank)},
       next \in {replace_next(tw, jobs, first_rank, last_rank)}})


----------------------------------------------------------------------------
(* TWRoute under validated replacements.  raw holds the TWRoute object, rin *)
(* the input (pinned jobs and the soft-timing tunables), rop the last       *)
(* operation.  Every replacement is one the range predicate accepts and     *)
(* whose result respects the capacity of the vehicle.                       *)

TWJobs == JobRanks

TWSeqs == {q \in InsertSeqs : Range(q) \subseteq TWJobs}

\* vehicle, soft-timing tunables, pinned jobs and the route seeded for them
TWScenarios ==
  {[v_rank |-> 0, soft |-> FALSE, budget |-> 0, pinned |-> {}, seed |-> <<>>],
   [v_rank |-> 1, soft |-> FALSE, budget |-> 0, pinned |-> {}, seed |-> <<>>],
   [v_rank |-> 0, soft |-> TRUE, budget |-> 0, pinned |-> {0}, seed |-> <<4, 0>>],
   [v_rank |-> 1, soft |-> TRUE, budget |-> 0, pinned |-> {4}, seed |-> <<4>>],
   [v_rank |-> 1, soft |-> TRUE, budget |-> 2, pinned |-> {0}, seed |-> <<0>>],
   [v_rank |-> 1, soft |-> TRUE, budget |-> 2, pinned |-> {1}, seed |-> <<5, 1>>],
   [v_rank |-> 1, soft |-> TRUE, budget |-> 2, pinned |-> {4}, seed |-> <<>>]}

TWInput(sc) ==
  [pinned |-> sc.pinned,
   pinned_first |-> [vi \in VehicleRanks |-> NoPinned],
   pinned_last |-> [vi \in VehicleRanks |-> NoPinned],
   pinned_soft_timing |-> sc.soft,
   pinned_violation_budget |-> sc.budget]

TWRouteOK(q) ==
  Len(q) <= MaxRouteLen /\ Range(q) \subseteq TWJobs /\ WellFormed(q)

\* dates of the route, a vector each
TWDates(tw) ==
  [earliest |-> tw.earliest, latest |-> tw.latest,
   action_time |-> tw.action_time,
   breaks_at_rank |-> tw.breaks_at_rank, breaks_counts |-> tw.breaks_counts]

\* TWRoute::replace called after TWRoute::is_valid_addition_for_tw accepted
\* the same arguments
TWReplace ==
  \E jobs \in TWSeqs :
    \E first_rank \in 0..Len(raw.raw.route) :
      \E last_rank \in first_rank..Len(raw.raw.route) :
        /\ TWRouteOK(ReplaceRange(raw.raw.route, jobs, first_rank, last_rank))
        /\ is_valid_addition_for_tw(rin, raw, SingleDeliveries(jobs), jobs,
                                    first_rank, last_rank)
        /\ \E after \in {tw_replace(rin, raw, jobs, first_rank, last_rank)} :
             /\ CapacityValid(after.raw, Vehicles[raw.v_rank].capacity)
             /\ raw' = after
             /\ rop' = [op |-> "replace"]
        /\ UNCHANGED <<rin, inp, sol, pre, pc, ri, loc, kept_routes,
                       extra_unassigned, remove_from_unassigned_ids, log>>

NextTW == TWReplace

InitTW ==
  /\ \E sc \in TWScenarios :
       /\ rin = TWInput(sc)
       /\ raw = IF sc.seed = <<>> THEN TWRouteInit(sc.v_rank)
                ELSE seed_relaxed_from_job_ranks(TWInput(sc), sc.v_rank, sc.seed)
       /\ rop = [op |-> "init"]
  /\ inp = <<>> /\ sol = <<>> /\ pre = <<>> /\ pc = "idle" /\ ri = 0 /\ loc = <<>>
  /\ kept_routes = <<>> /\ extra_unassigned = <<>>
  /\ remove_from_unassigned_ids = {} /\ log = <<>>

SpecTW == InitTW /\ [][NextTW]_vars


----------------------------------------------------------------------------
(* Claims about TWRoute::replace (checked under SpecTW)                     *)

\* C15: with pinned_soft_timing off, starting from a route whose dates
\* satisfy earliest[i] <= latest[i], after any sequence of TWRoute::replace
\* calls, each made after is_valid_addition_for_tw returned true for the same
\* arguments, earliest[i] <= latest[i] holds at every rank i of the route.
C15_EarliestNotAfterLatest ==
  ~rin.pinned_soft_timing
    => \A i \in DOMAIN raw.earliest : raw.earliest[i] <= raw.latest[i]


\* C16: with pinned_soft_timing on and pinned_violation_budget = 0,
\* is_valid_addition_for_tw returns false for every insertion whose
\* last_rank is the rank of a pinned job, and for every edit with
\* first_rank = 0 on a non-empty route that contains a pinned job.
C16_ZeroBudgetRejections ==
  (rin.pinned_soft_timing /\ rin.pinned_violation_budget = 0)
    => \A jobs \in TWSeqs :
         \A first_rank \in 0..Len(raw.raw.route) :
           \A last_rank \in first_rank..Len(raw.raw.route) :
             (\/ /\ Len(jobs) > 0
                 /\ last_rank < Len(raw.raw.route)
                 /\ At(raw.raw.route, last_rank) \in rin.pinned
              \/ /\ first_rank = 0
                 /\ Len(raw.raw.route) > 0
                 /\ Range(raw.raw.route) \cap rin.pinned # {})
               => ~is_valid_addition_for_tw(rin, raw, SingleDeliveries(jobs),
                                            jobs, first_rank, last_rank)

\* a zero-budget route that grew behind its pinned job, which is not at the
\* head of the route
C16_Witness ==
  /\ rin.pinned_soft_timing /\ rin.pinned_violation_budget = 0
  /\ rop.op = "replace"
  /\ Len(raw.raw.route) = 3
  /\ At(raw.raw.route, 1) \in rin.pinned


\* delay an edit adds at the step after its range, measured against the
\* baseline service start of that step
RefAddedDelay(tw, jobs, first_rank, last_rank) ==
  LET current == tw_walk(Vehicles[tw.v_rank], jobs, Len(jobs),
                         replace_current(tw, jobs, first_rank, last_rank))
      next == replace_next(tw, jobs, first_rank, last_rank)
  IN Max(0, current.earliest + next.travel
              - tw.baseline_service_start[last_rank])

\* slack of the step at rank k from its baseline service start to the end of
\* its time window
RefSlack(tw, last_rank, k) ==
  LET base_k == IF k \in DOMAIN tw.baseline_service_start
                THEN tw.baseline_service_start[k]
                ELSE tw.baseline_service_start[last_rank]
      open == {w \in 1..Len(Jobs[At(tw.raw.route, k)].tws) :
                 base_k <= Jobs[At(tw.raw.route, k)].tws[w].end}
  IN IF open = {} THEN 0
     ELSE Jobs[At(tw.raw.route, k)]
            .tws[CHOOSE w \in open : \A x \in open : w <= x].end - base_k

\* the edits C17 is about: accepted, ending before the end of the route at a
\* rank that has a baseline, with a pinned job at or after that rank
RefDelayedEdit(jobs, first_rank, last_rank) ==
  /\ last_rank < Len(raw.raw.route)
  /\ last_rank \in DOMAIN raw.baseline_service_start
  /\ \E k \in last_rank..(Len(raw.raw.route) - 1) :
       At(raw.raw.route, k) \in rin.pinned
  /\ is_valid_addition_for_tw(rin, raw, SingleDeliveries(jobs), jobs,
                              first_rank, last_rank)

RefValidEdit(tw, jobs, first_rank, last_rank) ==
  /\ TWRouteOK(ReplaceRange(tw.raw.route, jobs, first_rank, last_rank))
  /\ is_valid_addition_for_tw(rin, tw, SingleDeliveries(jobs), jobs,
                              first_rank, last_rank)
  /\ CapacityValid(replace(tw.raw, jobs, first_rank, last_rank,
                           Vehicles[tw.v_rank].capacity),
                   Vehicles[tw.v_rank].capacity)

\* C19: for any TWRoute state and any validated replace(jobs, first_rank,
\* last_rank), replacing the inserted range
\* [first_rank, first_rank + |jobs|) by the jobs originally at
\* [first_rank, last_rank) restores route, earliest, latest, action_time,
\* breaks_at_rank and breaks_counts exactly.
C19_ReplaceRoundTrip ==
  \A jobs \in TWSeqs :
    \A first_rank \in 0..Len(raw.raw.route) :
      \A last_rank \in first_rank..Len(raw.raw.route) :
        RefValidEdit(raw, jobs, first_rank, last_rank)
          => \A after \in {tw_replace(rin, raw, jobs, first_rank, last_rank)} :
               \A back \in {tw_replace(rin, after,
                                       SubSeq(raw.raw.route, first_rank + 1,
                                              last_rank),
                                       first_rank, first_rank + Len(jobs))} :
                 /\ back.raw.route = raw.raw.route
                 /\ TWDates(back) = TWDates(raw)


\* the load vectors RawRoute::update_amounts fills (the margins aside)
RefLoadVectors(rr) ==
  [rr EXCEPT !.delivery_margin = ZeroAmount, !.pickup_margin = ZeroAmount]

\* C20: after any validated TWRoute::replace, the incrementally maintained
\* earliest, latest, action_time, breaks_at_rank and breaks_counts equal the
\* values obtained by building the resulting job sequence from scratch on a
\* fresh route of the same vehicle (in particular latest[i] of a job after
\* the replaced range is the latest start the time windows and the vehicle
\* end allow, not a looser bound), and the load vectors equal those
\* update_amounts produces for the route.
C20_IncrementalEqualsFromScratch ==
  rop.op = "replace"
    => \A fresh \in {TWRouteInit(raw.v_rank)} :
         is_valid_addition_for_tw(rin, fresh, SingleDeliveries(raw.raw.route),
                                  raw.raw.route, 0, 0)
           => \A scratch \in {tw_replace(rin, fresh, raw.raw.route, 0, 0)} :
                /\ TWDates(raw) = TWDates(scratch)
                /\ RefLoadVectors(raw.raw) = RefLoadVectors(scratch.raw)


----------------------------------------------------------------------------
(* Margins of RawRoute (checked under SpecRaw)                              *)

\* C21: in every reachable RawRoute state (after any sequence of set_route,
\* add, remove, replace), delivery_margin = capacity - current_loads[0] and
\* pickup_margin = capacity - fwd_pickups[n-1] when the route is non-empty,
\* and both margins equal the capacity when the route is empty, a route that
\* became empty by removing its last job included.
C21_MarginsFollowLoads ==
  IF Len(raw.route) = 0
  THEN /\ raw.delivery_margin = rin.capacity
       /\ raw.pickup_margin = rin.capacity
  ELSE /\ raw.delivery_margin = AmountSub(rin.capacity, raw.current_loads[0])
       /\ raw.pickup_margin =
            AmountSub(rin.capacity, raw.fwd_pickups[Len(raw.route) - 1])


----------------------------------------------------------------------------
(* Eval (eval.h): a triple of signed integers of a fixed width, with        *)
(* saturating arithmetic and comparisons.  The width is EvalWidth bits, so  *)
(* that every pair of values of the type is enumerated.  rin holds the two  *)
(* operands, raw the result of the operator applied to them.                *)

EvalWidth == 4

\* std::numeric_limits<T>::min() and ::max()
TMin == -(2 ^ (EvalWidth - 1))
TMax == (2 ^ (EvalWidth - 1)) - 1

TValues == TMin..TMax

\* Eval::saturating_add
saturating_add(lhs, rhs) ==
  IF rhs > 0 /\ lhs > TMax - rhs THEN TMax
  ELSE IF rhs < 0 /\ lhs < TMin - rhs THEN TMin
  ELSE lhs + rhs

\* static_cast<T>(-rhs): the values the negation can take.  -min is not a
\* value of the type: the negation overflows (undefined for a type as wide as
\* int or wider, wrapped to min by the cast for a narrower one), so any value
\* of the type may come out.
negated_values(rhs) ==
  IF rhs = TMin THEN TValues ELSE {-rhs}

\* Eval::saturating_sub, given the value the negation of rhs took
saturating_sub(lhs, negated_rhs) == saturating_add(lhs, negated_rhs)

\* Eval::saturating_neg
saturating_neg(value) ==
  IF value = TMin THEN TMax
  ELSE IF value = TMax THEN TMin
  ELSE -value

MakeEval(c, d, m) ==
  [cost |-> c, duration |-> d, distance |-> m]

NO_EVAL == MakeEval(TMax, 0, 0)
NO_GAIN == MakeEval(TMin, 0, 0)

\* Eval operator+ (operator+=)
eval_plus(lhs, rhs) ==
  MakeEval(saturating_add(lhs.cost, rhs.cost),
           saturating_add(lhs.duration, rhs.duration),
           saturating_add(lhs.distance, rhs.distance))

\* Eval unary operator-
eval_negate(e) ==
  MakeEval(saturating_neg(e.cost), saturating_neg(e.duration),
           saturating_neg(e.distance))

\* Eval operator<: std::tie(cost, duration, distance) compared as tuples
eval_lt(lhs, rhs) ==
  \/ lhs.cost < rhs.cost
  \/ /\ lhs.cost = rhs.cost
     /\ \/ lhs.duration < rhs.duration
        \/ lhs.duration = rhs.duration /\ lhs.distance < rhs.distance

\* Eval operator<=
eval_le(lhs, rhs) == lhs.cost <= rhs.cost

\* Eval operator== (defaulted: member-wise)
eval_eq(lhs, rhs) ==
  /\ lhs.cost = rhs.cost
  /\ lhs.duration = rhs.duration
  /\ lhs.distance = rhs.distance

\* the operands: every cost of the type, small durations and distances
EvalOperands ==
  {MakeEval(c, d, m) : c \in TValues, d \in 0..1, m \in 0..1}

EvalUnchanged ==
  UNCHANGED <<rin, inp, sol, pre, pc, ri, loc, kept_routes,
              extra_unassigned, remove_from_unassigned_ids, log>>

\* a < b, a <= b, a == b
EvalCompare ==
  /\ rop.op = "init"
  /\ raw' = [lt |-> eval_lt(rin.a, rin.b), le |-> eval_le(rin.a, rin.b),
             eq |-> eval_eq(rin.a, rin.b)]
  /\ rop' = [op |-> "compare"]
  /\ EvalUnchanged

\* a + b
EvalPlus ==
  /\ rop.op = "init"
  /\ raw' = eval_plus(rin.a, rin.b)
  /\ rop' = [op |-> "plus"]
  /\ EvalUnchanged

\* a - b (operator-=)
EvalMinus ==
  /\ rop.op = "init"
  /\ \E nc \in negated_values(rin.b.cost) :
       \E nd \in negated_values(rin.b.duration) :
         \E nm \in negated_values(rin.b.distance) :
           raw' = MakeEval(saturating_sub(rin.a.cost, nc),
                           saturating_sub(rin.a.duration, nd),
                           saturating_sub(rin.a.distance, nm))
  /\ rop' = [op |-> "minus"]
  /\ EvalUnchanged

\* -a
EvalNegate ==
  /\ rop.op = "init"
  /\ raw' = eval_negate(rin.a)
  /\ rop' = [op |-> "negate"]
  /\ EvalUnchanged

NextEval == EvalCompare \/ EvalPlus \/ EvalMinus \/ EvalNegate

InitEval ==
  /\ \E a \in EvalOperands, b \in EvalOperands : rin = [a |-> a, b |-> b]
  /\ raw = <<>>
  /\ rop = [op |-> "init"]
  /\ inp = <<>> /\ sol = <<>> /\ pre = <<>> /\ pc = "idle" /\ ri = 0 /\ loc = <<>>
  /\ kept_routes = <<>> /\ extra_unassigned = <<>>
  /\ remove_from_unassigned_ids = {} /\ log = <<>>

SpecEval == InitEval /\ [][NextEval]_vars

\* C22: Eval comparisons are lexicographic on (cost, duration, distance): for
\* all Evals a and b, a <= b holds exactly when a < b or a == b, where < is
\* the lexicographic order on the triple.
C22_LessOrEqualIsLexicographic ==
  rop.op = "compare" => (raw.le <=> (raw.lt \/ raw.eq))


\* the mathematical result x brought back into [min, max]
RefClamp(x) == IF x > TMax THEN TMax ELSE IF x < TMin THEN TMin ELSE x

\* negation with min and max exchanged
RefNeg(x) == IF x = TMin THEN TMax ELSE IF x = TMax THEN TMin ELSE -x

\* C23: for every pair of values of the fixed-width signed type,
\* saturating_add, saturating_sub and saturating_neg never wrap: each returns
\* the mathematical result clamped to [min, max] (neg mapping min to max and
\* max to min), so that -NO_EVAL = NO_GAIN, -NO_GAIN = NO_EVAL, and adding an
\* Eval of non-negative cost to NO_EVAL leaves its cost at max.
C23_SaturatingNeverWraps ==
  /\ rop.op = "plus" =>
       /\ raw = MakeEval(RefClamp(rin.a.cost + rin.b.cost),
                         RefClamp(rin.a.duration + rin.b.duration),
                         RefClamp(rin.a.distance + rin.b.distance))
       /\ (rin.a = NO_EVAL /\ rin.b.cost >= 0) => raw.cost = TMax
  /\ rop.op = "minus" =>
       raw = MakeEval(RefClamp(rin.a.cost - rin.b.cost),
                      RefClamp(rin.a.duration - rin.b.duration),
                      RefClamp(rin.a.distance - rin.b.distance))
  /\ rop.op = "negate" =>
       /\ raw = MakeEval(RefNeg(rin.a.cost), RefNeg(rin.a.duration),
                         RefNeg(rin.a.distance))
       /\ rin.a = NO_EVAL => raw = NO_GAIN
       /\ rin.a = NO_GAIN => raw = NO_EVAL

----------------------------------------------------------------------------
(* repair_budget on solutions with three routes: the shipments (2, 3) and   *)
(* (6, 7) and the single jobs 0 and 5 are to be served, every vehicle has   *)
(* a route with one task and one task is unassigned.                        *)

FleetTasks == {0, 2, 5, 6}

\* the routes the solver may return for vehicle vi holding the given jobs:
\* pickup before delivery, within the capacity and the time windows
fleet_routes(in, jobs, vi) ==
  LET v == Vehicles[vi]
      empty == seed_relaxed_from_job_ranks(in, vi, <<>>)
  IN {q \in Perms(jobs) :
        /\ WellFormed(q)
        /\ CapacityValid(set_route(RawRouteInit(v.capacity), q, v.capacity),
                         v.capacity)
        /\ is_valid_addition_for_tw(in, empty, SingleDeliveries(q), q, 0, 0)}

fleet_jobs(asg, vi) == UNION {task_jobs(t) : t \in {x \in FleetTasks : asg[x] = vi}}

fleet_input(budget, flag) ==
  [make_input(CHOOSE su \in Setups : su.pinned_task = NoRank /\ su.restricted = NoRank,
              [t \in Tasks |-> NoRank], [t \in Tasks |-> 0], flag, MaxK)
     EXCEPT !.budget = [j \in JobRanks |-> IF j \in FleetTasks THEN budget[j] ELSE 0]]

fleet_solution(asg, r0, r1, r2) ==
  LET routes == <<format_route(0, r0), format_route(1, r1), format_route(2, r2)>>
      unassigned == ascending(fleet_jobs(asg, NoRank))
  IN [routes |-> routes, unassigned |-> unassigned,
      summary |-> summary_of(routes, unassigned, "t0")]

InitFleet ==
  /\ \E asg \in [FleetTasks -> VehicleRanks \cup {NoRank}] :
       /\ \A vi \in VehicleRanks : \E t \in FleetTasks : asg[t] = vi
       /\ \E t \in FleetTasks : asg[t] = NoRank
       /\ LET base == fleet_input([t \in FleetTasks |-> 0], FALSE)
          IN \E r0 \in fleet_routes(base, fleet_jobs(asg, 0), 0),
                r1 \in fleet_routes(base, fleet_jobs(asg, 1), 1),
                r2 \in fleet_routes(base, fleet_jobs(asg, 2), 2) :
             \E budget \in [FleetTasks -> 0..MaxBudget], flag \in BOOLEAN :
                /\ inp = fleet_input(budget, flag)
                /\ sol = fleet_solution(asg, r0, r1, r2)
                /\ pre = fleet_solution(asg, r0, r1, r2)
  /\ pc = "route"
  /\ ri = 0
  /\ loc = EmptyLoc
  /\ kept_routes = <<>>
  /\ extra_unassigned = <<>>
  /\ remove_from_unassigned_ids = {}
  /\ log = <<>>
  /\ raw = <<>> /\ rin = <<>> /\ rop = <<>>

SpecFleet == InitFleet /\ [][Next]_vars

\* the number of times job rank j stands on the routes and in the unassigned
\* list of a solution
RefCount(q, j) == Cardinality({i \in 1..Len(q) : q[i] = j})

RefOccurrences(s, j) ==
  SeqSum([i \in 1..Len(s.routes) |-> RefCount(RefRanks(s.routes[i]), j)])
    + RefCount(s.unassigned, j)

\* C24: after repair_budget, every job that was on a route or in unassigned
\* before the pass appears exactly once afterwards, on exactly one route or
\* in sol.unassigned; no unassigned candidate ends on two routes.
C24_NoJobLostOrDuplicated ==
  Returned =>
    \A j \in JobRanks :
       RefOccurrences(pre, j) = 1 => RefOccurrences(sol, j) = 1

\* C25: for each over-budget route the stages run in the order densify,
\* greedy removal, drop: the greedy stage is entered only from densify and
\* only when densify committed nothing, and the route is left out of the
\* kept routes only at the end of the greedy stage, with an empty job list
\* or a budget sum below the internal cost.
C25_StagesInOrder ==
  [][/\ (pc' = "densify" /\ pc # "densify") => pc = "route"
     /\ (pc' = "greedy" /\ pc # "greedy") =>
          /\ pc = "densify"
          /\ ri' = ri
          /\ kept_routes' = kept_routes
          /\ remove_from_unassigned_ids' = remove_from_unassigned_ids
     /\ (pc \in {"densify", "greedy"} /\ ri' = ri + 1
           /\ kept_routes' = kept_routes) =>
          /\ pc = "greedy"
          /\ extra_unassigned' = extra_unassigned \o loc.ranks
          /\ \/ Len(loc.ranks_local) = 0
             \/ RefBudgetSum(loc.ranks_local)
                  < RefInternalCost(loc.v_rank, loc.ranks_local)]_vars

\* one route was dropped at the end of the greedy stage, another one was
\* densified
C25_Witness ==
  \E i, k \in 1..Len(log) :
     /\ log[i].outcome = "dropped"
     /\ log[k].outcome = "densified"

\* the unassigned tasks densify may insert: single jobs, and pickups whose
\* delivery is unassigned too
RefCandidates ==
  {t \in Range(pre.unassigned) :
     \/ Jobs[t].type = "SINGLE"
     \/ Jobs[t].type = "PICKUP" /\ (t + 1) \in Range(pre.unassigned)}

\* the sets of K candidates with the highest budgets
RefTopK ==
  {E \in SUBSET RefCandidates :
     /\ Cardinality(E) = Min(inp.budget_densify_candidates_k,
                             Cardinality(RefCandidates))
     /\ \A e \in E : \A c \in RefCandidates \ E : inp.budget[e] >= inp.budget[c]}

\* the evaluated (candidate, position) pairs of the candidates E that pass
\* the capacity and time-window predicates with new_budget >= new_cost
RefPassing(E) ==
  LET tw_cur == seed_relaxed_from_job_ranks(inp, loc.v_rank, loc.ranks)
      n == Len(loc.ranks)
      evaluated ==
        {single_trial(inp, loc.v_rank, tw_cur, loc.cur_cost, loc.cur_budget,
                      x[1], x[2]) :
           x \in {y \in E \X (0..n) : Jobs[y[1]].type = "SINGLE"}}
        \cup
        {pd_trial(inp, loc.v_rank, tw_cur, loc.cur_cost, loc.cur_budget,
                  x[1], x[2], x[3]) :
           x \in {y \in E \X (0..n) \X (0..n) :
                    Jobs[y[1]].type = "PICKUP" /\ y[2] <= y[3]}}
  IN {res \in evaluated : res.valid /\ res.feasible}

\* C26: densify evaluates at most K >= 1 unassigned candidates, the K with
\* the highest budgets, and commits exactly one insertion, one of maximal
\* gain among the evaluated pairs that pass the capacity and time-window
\* predicates with new_budget >= new_cost; it commits nothing when no such
\* pair has a gain > 0.
C26_DensifyCommitsBestOfTopK ==
  [][(pc = "densify" /\ pc' \notin {"densify", "aborted"}) =>
       /\ set_budget_densify_candidates_k(0) = 1
       /\ inp.budget_densify_candidates_k >= 1
       /\ \E E \in RefTopK :
          \E P \in {RefPassing(E)} :
             IF \E p \in P : p.gain > 0
             THEN \E p \in P :
                    /\ \A q \in P : q.gain <= p.gain
                    /\ ri' = ri + 1
                    /\ kept_routes' =
                         Append(kept_routes, format_route(loc.v_rank, p.cand_ranks))
                    /\ Range(p.added) \subseteq
                         {t \in JobRanks : \E e \in E : t \in task_jobs(e)}
                    /\ SelectSeq(p.cand_ranks, LAMBDA j : j \notin Range(p.added))
                         = loc.ranks
                    /\ Len(p.cand_ranks) = Len(loc.ranks) + Len(p.added)
                    /\ remove_from_unassigned_ids' =
                         remove_from_unassigned_ids
                           \cup {Jobs[j].id : j \in Range(p.added)}
             ELSE /\ pc' = "greedy"
                  /\ ri' = ri
                  /\ kept_routes' = kept_routes
                  /\ remove_from_unassigned_ids' = remove_from_unassigned_ids]_vars

\* densify committed an insertion with more candidates unassigned than K
C26_Witness ==
  /\ \E i \in 1..Len(log) : log[i].outcome = "densified"
  /\ Cardinality(RefCandidates) > inp.budget_densify_candidates_k

\* the evaluated insertions of the candidates E: those that pass the
\* capacity and time-window predicates
RefEvaluated(E) ==
  LET tw_cur == seed_relaxed_from_job_ranks(inp, loc.v_rank, loc.ranks)
      n == Len(loc.ranks)
  IN {res \in
        {[single_trial(inp, loc.v_rank, tw_cur, loc.cur_cost, loc.cur_budget,
                       x[1], x[2]) EXCEPT !.added = <<x[1]>>] :
           x \in {y \in E \X (0..n) : Jobs[y[1]].type = "SINGLE"}}
        \cup
        {pd_trial(inp, loc.v_rank, tw_cur, loc.cur_cost, loc.cur_budget,
                  x[1], x[2], x[3]) :
           x \in {y \in E \X (0..n) \X (0..n) :
                    Jobs[y[1]].type = "PICKUP" /\ y[2] <= y[3]}} :
      res.valid}

\* new_cost of an evaluated insertion, from its gain
RefNewCost(res) ==
  loc.cur_cost + inp.budget[res.added[1]] - res.gain

\* C27: for every insertion evaluated by densify the incrementally computed
\* new cost equals the internal cost recomputed from scratch on the
\* resulting job list.
C27_IncrementalCostIsInternalCost ==
  pc = "densify" =>
    \A E \in RefTopK : \A res \in RefEvaluated(E) :
       RefNewCost(res) = RefInternalCost(loc.v_rank, res.cand_ranks)

----------------------------------------------------------------------------
(* Termination of repair_budget.  The function is sequential code: a step   *)
(* that can be taken is taken, hence weak fairness on the steps of the      *)
(* pass (an exception may or may not be thrown).                            *)

PassStep == CheckRoute \/ Densify \/ GreedyRemove \/ FinalCheck \/ Commit

\* the calls with every task routed and carrying a budget, under hard timing
\* and without position or vehicle restrictions; a task may be pinned
InitLoop ==
  /\ Init
  /\ sol.unassigned = <<>>
  /\ ~inp.pinned_soft_timing
  /\ \A t \in Tasks : inp.budget[t] >= 1 /\ inp.allowed_vehicles[t] = {}
  /\ \A vi \in VehicleRanks :
        inp.pinned_first[vi] = NoPinned /\ inp.pinned_last[vi] = NoPinned

FairSpec == InitLoop /\ [][Next]_vars /\ WF_vars(PassStep)

\* the removals the greedy loop may make on the job list q: one non-pinned
\* single job, or one shipment with neither task pinned
RefRemovals(q) ==
  {{j} : j \in {x \in Range(q) : Jobs[x].type = "SINGLE" /\ x \notin inp.pinned}}
  \cup {{j, j + 1} : j \in {x \in Range(q) :
                              /\ Jobs[x].type = "PICKUP"
                              /\ (x + 1) \in Range(q)
                              /\ x \notin inp.pinned
                              /\ (x + 1) \notin inp.pinned}}

RefWithout(q, R) == SelectSeq(q, LAMBDA j : j \notin R)

RefMargin(v_rank, q) == RefBudgetSum(q) - RefInternalCost(v_rank, q)

RefRemovalGain(v_rank, q, R) ==
  RefMargin(v_rank, RefWithout(q, R)) - RefMargin(v_rank, q)

\* C28: the greedy-removal loop terminates: an iteration either stops (the
\* route is within budget, or no removal has a gain > 0) or removes exactly
\* one non-pinned single job or one shipment of maximal gain, so the job
\* list shrinks strictly, the loop runs at most n times and repair_budget
\* always ends.
C28_GreedyLoopTerminates ==
  /\ [][/\ (pc = "greedy" /\ pc' = "greedy") =>
             \E R \in RefRemovals(loc.ranks_local) :
                /\ loc'.ranks_local = RefWithout(loc.ranks_local, R)
                /\ Range(loc'.removed_ranks) = Range(loc.removed_ranks) \cup R
                /\ Len(loc'.ranks_local) < Len(loc.ranks_local)
                /\ RefMargin(loc.v_rank, loc.ranks_local) < 0
                /\ RefRemovalGain(loc.v_rank, loc.ranks_local, R) > 0
                /\ \A S \in RefRemovals(loc.ranks_local) :
                      RefRemovalGain(loc.v_rank, loc.ranks_local, S)
                        <= RefRemovalGain(loc.v_rank, loc.ranks_local, R)
        /\ (pc = "greedy" /\ pc' \notin {"greedy", "aborted"}) =>
             \/ Len(loc.ranks_local) = 0
             \/ RefMargin(loc.v_rank, loc.ranks_local) >= 0
             \/ \A S \in RefRemovals(loc.ranks_local) :
                   RefRemovalGain(loc.v_rank, loc.ranks_local, S) <= 0
        /\ pc' = "greedy" =>
             Len(loc'.ranks_local) + Len(loc'.removed_ranks) = Len(loc'.ranks)
       ]_vars
  /\ <>(pc \in {"done", "aborted"})

\* the loop is in at least its third iteration: two removals have taken
\* three tasks off the route
C28_Witness ==
  /\ pc = "greedy"
  /\ Len(loc.removed_ranks) >= 3
  /\ Len(loc.ranks_local) + Len(loc.removed_ranks) = Len(loc.ranks)

----------------------------------------------------------------------------
(* The break bookkeeping of TWRoute: the vectors breaks_at_rank and         *)
(* breaks_counts and the sizes of route, earliest, latest and action_time   *)
(* through the constructor, seed_relaxed_from_job_ranks and replace, for a  *)
(* vehicle with breaks.  Which breaks order_choice puts before which job    *)
(* depends on dates that play no part here: every split of the breaks of    *)
(* the replaced range over the inserted jobs is taken, and every edit with  *)
(* first_rank <= last_rank <= n, which covers the validated ones.  Dates    *)
(* are kept as entries of value 0.                                          *)

MaxBreaks == 3
BreakRouteLen == 4

vec_size(f) == Cardinality(DOMAIN f)

\* std::vector::assign(count, value)
vec_assign(count, value) == [i \in 0..(count - 1) |-> value]

\* std::vector::erase of count entries from rank first on
vec_erase(f, first, count) ==
  [i \in 0..(vec_size(f) - count - 1) |-> IF i < first THEN f[i] ELSE f[i + count]]

\* std::vector::insert of count entries of one value at rank first
vec_insert(f, first, count, value) ==
  [i \in 0..(vec_size(f) + count - 1) |->
     IF i < first THEN f[i]
     ELSE IF i < first + count THEN value
     ELSE f[i - count]]

\* std::vector::resize(count, value)
vec_resize(f, count, value) ==
  [i \in 0..(count - 1) |-> IF i < vec_size(f) THEN f[i] ELSE value]

\* lines 1719-1753: the erase or insert of replace on one vector
replace_resize(f, first_rank, erase_count, add_count) ==
  IF add_count < erase_count
  THEN vec_erase(f, first_rank, erase_count - add_count)
  ELSE vec_insert(f, first_rank, add_count - erase_count, 0)

\* the TWRoute of a vehicle with nb_breaks breaks after its constructor
BreaksRouteInit(nb_breaks) ==
  [route |-> <<>>, earliest |-> <<>>, latest |-> <<>>, action_time |-> <<>>,
   breaks_at_rank |-> vec_assign(1, nb_breaks),
   breaks_counts |-> vec_assign(1, nb_breaks)]

\* seed_relaxed_from_job_ranks on n job ranks: lines 427-471
breaks_seed(nb_breaks, n) ==
  [route |-> vec_assign(n, 0), earliest |-> vec_assign(n, 0),
   latest |-> vec_assign(n, 0), action_time |-> vec_assign(n, 0),
   breaks_at_rank |-> [i \in 0..n |-> IF i = n THEN nb_breaks ELSE 0],
   breaks_counts |-> [i \in 0..n |-> IF i = n THEN nb_breaks ELSE 0]]

\* the number of breaks the loop of replace places from current_break on:
\* it goes on until last_break and gives up when the vehicle has no break
\* left
RECURSIVE breaks_to_place(_, _, _)
breaks_to_place(current_break, last_break, nb_breaks) ==
  IF current_break = last_break \/ current_break >= nb_breaks THEN 0
  ELSE 1 + breaks_to_place(current_break + 1, last_break, nb_breaks)

\* a cumulative count that forgets the breaks before the range
trailing_count_without_previous(previous_breaks_counts, breaks_before) ==
  breaks_before

\* line 1979: the cumulative count of the slot after the inserted jobs
trailing_breaks_count(previous_breaks_counts, breaks_before) ==
  previous_breaks_counts + breaks_before

\* the sum of the first k entries of a split
RECURSIVE split_sum(_, _)
split_sum(split, k) == IF k = 0 THEN 0 ELSE split[k] + split_sum(split, k - 1)

\* TWRoute::replace on the vectors: add_count jobs take the place of the
\* ranks first_rank..last_rank-1, split[k] breaks go before the k-th job
breaks_replace(tw, nb_breaks, add_count, first_rank, last_rank, split) ==
  LET previous_breaks_counts ==
        IF first_rank # 0 THEN tw.breaks_counts[first_rank - 1] ELSE 0
      erase_count == last_rank - first_rank
      current_job_rank == first_rank + add_count
      n == vec_size(tw.route) + add_count - erase_count
      to_place ==
        breaks_to_place(tw.breaks_counts[first_rank] - tw.breaks_at_rank[first_rank],
                        tw.breaks_counts[last_rank], nb_breaks)
      at_rank == vec_resize(replace_resize(tw.breaks_at_rank, first_rank,
                                           erase_count, add_count), n + 1, 0)
      counts == vec_resize(replace_resize(tw.breaks_counts, first_rank,
                                          erase_count, add_count), n + 1, 0)
  IN [route |-> replace_resize(tw.route, first_rank, erase_count, add_count),
      earliest |-> replace_resize(tw.earliest, first_rank, erase_count, add_count),
      latest |-> replace_resize(tw.latest, first_rank, erase_count, add_count),
      action_time |->
        replace_resize(tw.action_time, first_rank, erase_count, add_count),
      breaks_at_rank |->
        [i \in DOMAIN at_rank |->
           IF i >= first_rank /\ i < current_job_rank
           THEN split[i - first_rank + 1]
           ELSE IF i = current_job_rank
           THEN to_place - split_sum(split, add_count)
           ELSE at_rank[i]],
      breaks_counts |->
        [i \in DOMAIN counts |->
           IF i >= first_rank /\ i < current_job_rank
           THEN previous_breaks_counts + split_sum(split, i - first_rank + 1)
           ELSE IF i = current_job_rank
           THEN trailing_breaks_count(
                  previous_breaks_counts + split_sum(split, add_count),
                  to_place - split_sum(split, add_count))
           ELSE counts[i]]]

BreaksUnchanged ==
  UNCHANGED <<rin, inp, sol, pre, pc, ri, loc, kept_routes, extra_unassigned,
              remove_from_unassigned_ids, log>>

\* seed_relaxed_from_job_ranks with n job ranks
BreaksSeed ==
  /\ \E n \in 0..BreakRouteLen : raw' = breaks_seed(rin.nb_breaks, n)
  /\ rop' = [op |-> "seed"]
  /\ BreaksUnchanged

\* replace of the ranks first_rank..last_rank-1 by add_count jobs
BreaksReplace ==
  /\ \E first_rank \in 0..vec_size(raw.route) :
     \E last_rank \in first_rank..vec_size(raw.route) :
     \E add_count \in 0..MaxInsertLen :
     \E split \in [1..add_count -> 0..MaxBreaks] :
        /\ vec_size(raw.route) + add_count - (last_rank - first_rank)
             <= BreakRouteLen
        /\ split_sum(split, add_count)
             <= breaks_to_place(raw.breaks_counts[first_rank]
                                  - raw.breaks_at_rank[first_rank],
                                raw.breaks_counts[last_rank], rin.nb_breaks)
        /\ raw' = breaks_replace(raw, rin.nb_breaks, add_count, first_rank,
                                 last_rank, split)
  /\ rop' = [op |-> "replace"]
  /\ BreaksUnchanged

NextBreaks == BreaksSeed \/ BreaksReplace

InitBreaks ==
  /\ \E nb_breaks \in 0..MaxBreaks :
       /\ rin = [nb_breaks |-> nb_breaks]
       /\ raw = BreaksRouteInit(nb_breaks)
  /\ rop = [op |-> "init"]
  /\ inp = <<>> /\ sol = <<>> /\ pre = <<>>
  /\ pc = "idle" /\ ri = 0 /\ loc = <<>>
  /\ kept_routes = <<>> /\ extra_unassigned = <<>>
  /\ remove_from_unassigned_ids = {}
  /\ log = <<>>

SpecBreaks == InitBreaks /\ [][NextBreaks]_vars

RECURSIVE RefPrefixSum(_, _)
RefPrefixSum(f, i) == IF i < 0 THEN 0 ELSE f[i] + RefPrefixSum(f, i - 1)

\* C29: in every reachable TWRoute state breaks_at_rank and breaks_counts
\* have n + 1 entries, breaks_counts[i] is the sum of breaks_at_rank[0..i]
\* for every i in [0, n], breaks_counts[n] is the number of breaks of the
\* vehicle, and earliest, latest and action_time have exactly n entries.
C29_BreakVectorsConsistent ==
  \E n \in {vec_size(raw.route)} :
     /\ DOMAIN raw.breaks_at_rank = 0..n
     /\ DOMAIN raw.breaks_counts = 0..n
     /\ \A i \in 0..n :
           raw.breaks_counts[i] = RefPrefixSum(raw.breaks_at_rank, i)
     /\ raw.breaks_counts[n] = rin.nb_breaks
     /\ DOMAIN raw.earliest = 0..(n - 1)
     /\ DOMAIN raw.latest = 0..(n - 1)
     /\ DOMAIN raw.action_time = 0..(n - 1)

\* a replace has left breaks before a job of the route and breaks before
\* the route end
C29_Witness ==
  /\ rop.op = "replace"
  /\ vec_size(raw.route) >= 2
  /\ \E i \in 0..(vec_size(raw.route) - 1) : raw.breaks_at_rank[i] > 0
  /\ raw.breaks_at_rank[vec_size(raw.route)] > 0

\* the job at rank i starts inside one of its time windows
RefInsideTW(job, t) == \E k \in 1..Len(job.tws) : job.tws[k].start <= t /\ t <= job.tws[k].end

\* C30: after any validated TWRoute::replace, for every rank i < n - 1,
\* earliest[i] + action_time[i] + the travel from route[i] to route[i + 1]
\* (plus the service of the breaks before rank i + 1, none for these
\* vehicles) is <= earliest[i + 1], and earliest[i] lies inside one of the
\* time windows of job route[i].
C30_EarliestChainInsideTimeWindows ==
  rop.op = "replace" =>
    \A i \in 0..(Len(raw.raw.route) - 2) :
       /\ raw.earliest[i] + raw.action_time[i]
            + duration(Vehicles[raw.v_rank], Jobs[At(raw.raw.route, i)].index,
                       Jobs[At(raw.raw.route, i + 1)].index)
            <= raw.earliest[i + 1]
       /\ RefInsideTW(Jobs[At(raw.raw.route, i)], raw.earliest[i])

----------------------------------------------------------------------------
(* TWRoute::order_choice (tw_route.cpp): the decision between a job and a   *)
(* break that both wait to be sequenced.  It is a function of its           *)
(* arguments, of the job table and of the backward load margin of the       *)
(* break.  rin holds one call, raw the OrderChoice it returns.              *)

\* the breaks of the vehicle; rank is v.break_rank(b.id)
Breaks ==
  [k \in 0..2 |->
     IF k = 0
     THEN [id |-> 1, rank |-> 0, service |-> 1,
           tws |-> <<[start |-> 0, end |-> Horizon]>>,
           has_max_load |-> FALSE, max_load |-> ZeroAmount]
     ELSE IF k = 1
     THEN [id |-> 2, rank |-> 1, service |-> 1,
           tws |-> <<[start |-> 0, end |-> 2], [start |-> 5, end |-> 9]>>,
           has_max_load |-> TRUE, max_load |-> <<1, 0>>]
     ELSE [id |-> 3, rank |-> 2, service |-> 2,
           tws |-> <<[start |-> 2, end |-> 4]>>,
           has_max_load |-> TRUE, max_load |-> ZeroAmount]]

\* the job table of the calls: two single jobs and a shipment
OrderJobs ==
  [r \in 0..3 |->
     CASE r = 0 -> [type |-> "SINGLE",   id |-> 11, index |-> 1,
                    pickup |-> <<1, 0>>, delivery |-> <<0, 0>>,
                    setup |-> 1, service |-> 1,
                    tws |-> <<[start |-> 0, end |-> 3], [start |-> 6, end |-> 9]>>]
       [] r = 1 -> [type |-> "SINGLE",   id |-> 12, index |-> 2,
                    pickup |-> <<0, 0>>, delivery |-> <<1, 0>>,
                    setup |-> 0, service |-> 1, tws |-> DefaultTW]
       [] r = 2 -> [type |-> "PICKUP",   id |-> 21, index |-> 1,
                    pickup |-> <<1, 0>>, delivery |-> <<0, 0>>,
                    setup |-> 0, service |-> 1,
                    tws |-> <<[start |-> 0, end |-> 6]>>]
       [] OTHER -> [type |-> "DELIVERY", id |-> 31, index |-> 2,
                    pickup |-> <<0, 0>>, delivery |-> <<1, 0>>,
                    setup |-> 1, service |-> 1,
                    tws |-> <<[start |-> 0, end |-> 4]>>]]

\* Break::is_valid_for_load
is_valid_for_load(b, load) ==
  ~b.has_max_load \/ AmountLeq(load, b.max_load)

\* a time-window search that forgets the travel to the job
OrderChoice_ignoring_travel(in, job_rank, b, previous) ==
  [add_job_first |-> FALSE, add_break_first |-> FALSE,
   j_tw |-> first_open_tw(in.jobs[job_rank].tws, previous.earliest),
   b_tw |-> first_open_tw(b.tws, previous.earliest)]

\* OrderChoice::OrderChoice: both flags off, the first time window of the job
\* open at previous.earliest + previous.travel and the first one of the break
\* open at previous.earliest (0 for the end iterator)
OrderChoice(in, job_rank, b, previous) ==
  [add_job_first |-> FALSE, add_break_first |-> FALSE,
   j_tw |-> first_open_tw(in.jobs[job_rank].tws,
                          previous.earliest + previous.travel),
   b_tw |-> first_open_tw(b.tws, previous.earliest)]

\* travel left after a wait of margin
travel_after_margin(travel, margin) ==
  IF margin < travel THEN travel - margin ELSE 0

\* the pickup branch of order_choice: TRUE for pickup first
pickup_first(in, tw, job_rank, b, current_load, check_max_load, earliest_job_end, job_then_break_margin, job_then_break_end) ==
  LET v == Vehicles[tw.v_rank]
      j == in.jobs[job_rank]
      matching_d == in.jobs[job_rank + 1]
      delivery_travel ==
        travel_after_margin(duration(v, j.index, matching_d.index),
                            job_then_break_margin)
      pb_d_candidate == job_then_break_end + delivery_travel
      pb_d_tw == first_open_tw(matching_d.tws, pb_d_candidate)
      delivery_candidate ==
        earliest_job_end + duration(v, j.index, matching_d.index)
      d_tw == first_open_tw(matching_d.tws, delivery_candidate)
      matching_d_action_time ==
        IF matching_d.index = j.index THEN matching_d.service
        ELSE matching_d.setup + matching_d.service
      break_candidate ==
        Max(delivery_candidate, matching_d.tws[d_tw].start)
          + matching_d_action_time
  IN \/ /\ pb_d_tw # 0
        /\ (~check_max_load
              \/ is_valid_for_load(b, AmountAdd(current_load, j.pickup)))
     \/ /\ d_tw # 0
        /\ first_open_tw(b.tws, break_candidate) # 0

\* the single-job decision of order_choice: TRUE for job first
single_job_first(j, j_tw, b_tw, break_then_job_end, job_then_break_end) ==
  IF break_then_job_end < job_then_break_end THEN FALSE
  ELSE IF break_then_job_end = job_then_break_end
       THEN j.type = "DELIVERY" \/ j_tw.end <= b_tw.end
  ELSE TRUE

\* TWRoute::order_choice
order_choice(in, tw, job_rank, j_action_time, b, previous, next, current_load, check_max_load) ==
  LET oc == OrderChoice(in, job_rank, b, previous)
      v == Vehicles[tw.v_rank]
      j == in.jobs[job_rank]
      j_tw == j.tws[oc.j_tw]
      b_tw == b.tws[oc.b_tw]
      job_first == [oc EXCEPT !.add_job_first = TRUE]
      break_first == [oc EXCEPT !.add_break_first = TRUE]
      earliest_job_end ==
        Max(previous.earliest + previous.travel, j_tw.start) + j_action_time
      new_b_tw == first_open_tw(b.tws, earliest_job_end)
      waits == earliest_job_end < b.tws[new_b_tw].start
      job_then_break_margin ==
        IF waits THEN b.tws[new_b_tw].start - earliest_job_end ELSE 0
      travel_after_break ==
        IF waits THEN travel_after_margin(next.travel, job_then_break_margin)
        ELSE next.travel
      job_then_break_end ==
        IF waits THEN b_tw.start + b.service
        ELSE earliest_job_end + b.service
      travel_after_first_break ==
        IF previous.earliest < b_tw.start
        THEN travel_after_margin(previous.travel, b_tw.start - previous.earliest)
        ELSE previous.travel
      earliest_job_start ==
        (IF previous.earliest < b_tw.start THEN b_tw.start
         ELSE previous.earliest) + b.service + travel_after_first_break
      new_j_tw == first_open_tw(j.tws, earliest_job_start)
      break_then_job_end ==
        Max(earliest_job_start, j.tws[new_j_tw].start) + j_action_time
  IN IF oc.j_tw = 0 \/ oc.b_tw = 0 THEN oc
     ELSE IF new_b_tw = 0
          THEN [oc EXCEPT !.add_break_first =
                  ~check_max_load \/ is_valid_for_load(b, current_load)]
     ELSE IF job_then_break_end + travel_after_break > next.latest
          THEN break_first
     ELSE IF /\ check_max_load /\ j.type = "SINGLE"
             /\ \/ ~is_valid_for_load(
                      b, AmountSub(AmountAdd(current_load, j.pickup), j.delivery))
                \/ ~AmountLeq(j.pickup,
                              tw.bwd_smallest_breaks_load_margin[b.rank])
          THEN [oc EXCEPT !.add_break_first = is_valid_for_load(b, current_load)]
     ELSE IF check_max_load /\ ~is_valid_for_load(b, current_load)
          THEN job_first
     ELSE IF new_j_tw = 0 THEN job_first
     ELSE IF break_then_job_end + next.travel > next.latest THEN job_first
     ELSE IF j.type = "PICKUP"
          THEN IF pickup_first(in, tw, job_rank, b, current_load, check_max_load,
                               earliest_job_end, job_then_break_margin,
                               job_then_break_end)
               THEN job_first ELSE break_first
     ELSE IF single_job_first(j, j_tw, b_tw, break_then_job_end,
                              job_then_break_end)
          THEN job_first ELSE break_first

\* bounds of the calls
MaxPrevEarliest == 5
MaxTravel == 2

\* the loads a route can carry into the decision
OrderLoads == {ZeroAmount, <<1, 0>>, <<2, 0>>}

\* the backward margins of a break: the smallest of the max_load minus load
\* left after it, or the largest amount when no break caps the load
OrderMargins == {ZeroAmount, <<1, 0>>, <<MaxCap, MaxCap>>}

\* the calls of order_choice made by the range predicate and by replace:
\* the action time is the one of the job after the previous location, the
\* load holds the delivery of the job (asserted by the callers) and is only
\* maintained when check_max_load is set
OrderCalls ==
  {c \in [job_rank : DOMAIN OrderJobs,
          same_location : BOOLEAN,
          b : DOMAIN Breaks,
          previous : [earliest : 0..MaxPrevEarliest, travel : 0..MaxTravel],
          next : [latest : {4, 7, Horizon}, travel : 0..MaxTravel],
          current_load : OrderLoads,
          margin : OrderMargins,
          check_max_load : BOOLEAN] :
     /\ c.check_max_load =>
          AmountLeq(OrderJobs[c.job_rank].delivery, c.current_load)
     /\ ~c.check_max_load =>
          c.current_load = ZeroAmount /\ c.margin = ZeroAmount
     /\ c.same_location => c.previous.travel = 0}

\* the arguments of a call, as the callers form them
call_action_time(c) ==
  IF c.same_location THEN OrderJobs[c.job_rank].service
  ELSE OrderJobs[c.job_rank].setup + OrderJobs[c.job_rank].service

call_route(c) ==
  [v_rank |-> 0,
   bwd_smallest_breaks_load_margin |-> [k \in DOMAIN Breaks |-> c.margin]]

OrderUnchanged ==
  UNCHANGED <<rin, inp, sol, pre, pc, ri, loc, kept_routes,
              extra_unassigned, remove_from_unassigned_ids, log>>

\* one call of order_choice
OrderChoose ==
  /\ rop.op = "init"
  /\ raw' = order_choice(inp, call_route(rin), rin.job_rank,
                         call_action_time(rin), Breaks[rin.b], rin.previous,
                         rin.next, rin.current_load, rin.check_max_load)
  /\ rop' = [op |-> "order_choice"]
  /\ OrderUnchanged

NextOrder == OrderChoose

InitOrder ==
  /\ rin \in OrderCalls
  /\ raw = <<>>
  /\ rop = [op |-> "init"]
  /\ inp = [jobs |-> OrderJobs]
  /\ sol = <<>> /\ pre = <<>> /\ pc = "idle" /\ ri = 0 /\ loc = <<>>
  /\ kept_routes = <<>> /\ extra_unassigned = <<>>
  /\ remove_from_unassigned_ids = {} /\ log = <<>>

SpecOrder == InitOrder /\ [][NextOrder]_vars

\* a time window of tws is still open at time t
RefReachable(tws, t) == \E k \in 1..Len(tws) : t <= tws[k].end

\* C31: order_choice never returns both add_job_first and add_break_first
\* set; it returns neither whenever the job has no time window reachable at
\* previous.earliest + previous.travel or the break has none reachable at
\* previous.earliest; otherwise it returns exactly one of the two or neither.
C31_OrderChoiceExclusive ==
  rop.op = "order_choice" =>
    /\ ~(raw.add_job_first /\ raw.add_break_first)
    /\ (\/ ~RefReachable(OrderJobs[rin.job_rank].tws,
                         rin.previous.earliest + rin.previous.travel)
        \/ ~RefReachable(Breaks[rin.b].tws, rin.previous.earliest))
         => (~raw.add_job_first /\ ~raw.add_break_first)

\* a job without a reachable time window is reported infeasible although the
\* break has one
C31_Witness ==
  /\ rop.op = "order_choice"
  /\ ~RefReachable(OrderJobs[rin.job_rank].tws,
                   rin.previous.earliest + rin.previous.travel)
  /\ RefReachable(Breaks[rin.b].tws, rin.previous.earliest)
  /\ ~raw.add_job_first /\ ~raw.add_break_first

\* C32: when order_choice is called with check_max_load set and current_load
\* exceeds the max_load of the break, it never returns add_break_first set,
\* on any path.
C32_BreakFirstHonoursMaxLoad ==
  (/\ rop.op = "order_choice"
   /\ rin.check_max_load
   /\ ~is_valid_for_load(Breaks[rin.b], rin.current_load))
    => ~raw.add_break_first

\* the two orders of a call, followed through: the job started in the first
\* of its windows open on arrival, the break started in the first of its
\* windows open when it is reached; a wait for the break absorbs travel
RefJob(c) == OrderJobs[c.job_rank]

RefJobWindow(c) ==
  first_open_tw(RefJob(c).tws, c.previous.earliest + c.previous.travel)

RefBreakWindow(c) == first_open_tw(Breaks[c.b].tws, c.previous.earliest)

RefJobEnd(c) ==
  Max(c.previous.earliest + c.previous.travel,
      RefJob(c).tws[RefJobWindow(c)].start) + call_action_time(c)

RefBreakWindowAfterJob(c) == first_open_tw(Breaks[c.b].tws, RefJobEnd(c))

RefJobThenBreakEnd(c) ==
  Max(RefJobEnd(c), Breaks[c.b].tws[RefBreakWindowAfterJob(c)].start)
    + Breaks[c.b].service

RefJobThenBreakWait(c) == RefJobThenBreakEnd(c) - Breaks[c.b].service - RefJobEnd(c)

RefBreakEnd(c) ==
  Max(c.previous.earliest, Breaks[c.b].tws[RefBreakWindow(c)].start)
    + Breaks[c.b].service

RefJobArrivalAfterBreak(c) ==
  RefBreakEnd(c)
    + travel_after_margin(c.previous.travel,
                          RefBreakEnd(c) - Breaks[c.b].service - c.previous.earliest)

RefJobWindowAfterBreak(c) ==
  first_open_tw(RefJob(c).tws, RefJobArrivalAfterBreak(c))

RefBreakThenJobEnd(c) ==
  Max(RefJobArrivalAfterBreak(c),
      RefJob(c).tws[RefJobWindowAfterBreak(c)].start) + call_action_time(c)

\* both orders fit the time windows and next.latest, and no load cap of the
\* break stands in the way of either
RefBothOrdersFit(c) ==
  /\ RefJobWindow(c) # 0 /\ RefBreakWindow(c) # 0
  /\ RefBreakWindowAfterJob(c) # 0
  /\ RefJobThenBreakEnd(c)
       + travel_after_margin(c.next.travel, RefJobThenBreakWait(c))
       <= c.next.latest
  /\ RefJobWindowAfterBreak(c) # 0
  /\ RefBreakThenJobEnd(c) + c.next.travel <= c.next.latest
  /\ c.check_max_load =>
       /\ is_valid_for_load(Breaks[c.b], c.current_load)
       /\ RefJob(c).type = "SINGLE" =>
            /\ is_valid_for_load(
                 Breaks[c.b],
                 AmountSub(AmountAdd(c.current_load, RefJob(c).pickup),
                           RefJob(c).delivery))
            /\ AmountLeq(RefJob(c).pickup, c.margin)

\* the order C34 names for a call
RefJobFirst(c) ==
  \/ RefJobThenBreakEnd(c) < RefBreakThenJobEnd(c)
  \/ /\ RefJobThenBreakEnd(c) = RefBreakThenJobEnd(c)
     /\ \/ RefJob(c).type = "DELIVERY"
        \/ RefJob(c).tws[RefJobWindow(c)].end
             <= Breaks[c.b].tws[RefBreakWindow(c)].end

\* C34: for a single job for which both orderings are feasible, order_choice
\* returns the ordering whose earliest end time of the two-element sequence
\* (each element started at the earliest time the time window actually used
\* allows) is smaller; on equal end times it returns job-first when the job
\* is a delivery or the job's time window ends no later than the break's, and
\* break-first otherwise.
C34_SingleJobEarliestEnd ==
  (/\ rop.op = "order_choice"
   /\ RefJob(rin).type # "PICKUP"
   /\ RefBothOrdersFit(rin))
    => /\ raw.add_job_first <=> RefJobFirst(rin)
       /\ raw.add_break_first <=> ~RefJobFirst(rin)

\* the matching delivery of the pickup of a call, and the travel to it
RefDelivery(c) == OrderJobs[c.job_rank + 1]

RefDeliveryTravel(c) ==
  duration(Vehicles[0], RefJob(c).index, RefDelivery(c).index)

\* pickup -> break -> delivery: the delivery is reached inside one of its
\* time windows after the break, and the break admits the load with the
\* pickup on board
RefPickupBreakDelivery(c) ==
  /\ RefReachable(RefDelivery(c).tws,
                  RefJobThenBreakEnd(c)
                    + travel_after_margin(RefDeliveryTravel(c),
                                          RefJobThenBreakWait(c)))
  /\ c.check_max_load =>
       is_valid_for_load(Breaks[c.b],
                         AmountAdd(c.current_load, RefJob(c).pickup))

RefDeliveryEnd(c) ==
  LET arrival == RefJobEnd(c) + RefDeliveryTravel(c)
      d == RefDelivery(c)
  IN Max(arrival, d.tws[first_open_tw(d.tws, arrival)].start)
       + (IF d.index = RefJob(c).index THEN d.service
          ELSE d.setup + d.service)

\* pickup -> delivery -> break: the delivery is reached inside one of its
\* time windows and the break still has one open after it
RefPickupDeliveryBreak(c) ==
  /\ RefReachable(RefDelivery(c).tws, RefJobEnd(c) + RefDeliveryTravel(c))
  /\ RefReachable(Breaks[c.b].tws, RefDeliveryEnd(c))

\* C33: for a pickup for which both orderings fit the time windows and
\* next.latest, order_choice returns pickup-first if and only if the matching
\* delivery (job_rank + 1) can still reach one of its time windows via
\* pickup -> break -> delivery (the break admitting current_load + pickup
\* when check_max_load is set) or via pickup -> delivery -> break with the
\* break still inside one of its time windows; otherwise it returns
\* break-first.
C33_PickupFirstIffDeliveryFeasible ==
  (/\ rop.op = "order_choice"
   /\ RefJob(rin).type = "PICKUP"
   /\ RefBothOrdersFit(rin))
    => /\ raw.add_job_first <=>
            (RefPickupBreakDelivery(rin) \/ RefPickupDeliveryBreak(rin))
       /\ raw.add_break_first <=>
            ~(RefPickupBreakDelivery(rin) \/ RefPickupDeliveryBreak(rin))

----------------------------------------------------------------------------
(* The pinned-anchor guards of the two range predicates, side by side: a    *)
(* route of vehicle 0 seeded with the pinned boundaries of the vehicle in   *)
(* place, and one edit put to RawRoute's anchor checks and to TWRoute's     *)
(* range predicate.  rin holds the input, raw the TWRoute, rop the two      *)
(* answers.                                                                 *)

\* the pinned boundaries a vehicle may have
AnchorPins ==
  {[pf |-> NoPinned, pl |-> NoPinned],
   [pf |-> PinnedJob(0), pl |-> NoPinned],
   [pf |-> NoPinned, pl |-> PinnedJob(4)],
   [pf |-> PinnedShipment(2), pl |-> NoPinned],
   [pf |-> NoPinned, pl |-> PinnedShipment(6)]}

AnchorInput(pins) ==
  [pinned |-> {},
   pinned_first |-> [vi \in VehicleRanks |-> pins.pf],
   pinned_last |-> [vi \in VehicleRanks |-> pins.pl],
   pinned_soft_timing |-> FALSE,
   pinned_violation_budget |-> 0]

\* the pinned-first and pinned-last blocks of RawRoute's range predicate
RawRoute_anchor_checks(in, tw, jobs, first_rank, last_rank) ==
  /\ inclusion_pinned_first_ok(tw.raw.route, jobs, first_rank, last_rank,
                               in.pinned_first[tw.v_rank])
  /\ inclusion_pinned_last_ok(tw.raw.route, jobs, first_rank, last_rank,
                              in.pinned_last[tw.v_rank])

\* one edit put to both predicates
AnchorCheck ==
  /\ rop.op = "init"
  /\ \E jobs \in GateSeqs :
       \E first_rank \in 0..Len(raw.raw.route) :
         \E last_rank \in first_rank..Len(raw.raw.route) :
           rop' = [op |-> "check",
                   removal |-> Len(jobs) = 0,
                   raw_ok |-> RawRoute_anchor_checks(rin, raw, jobs,
                                                     first_rank, last_rank),
                   tw_ok |-> is_valid_addition_for_tw(
                               rin, raw, SingleDeliveries(jobs), jobs,
                               first_rank, last_rank)]
  /\ UNCHANGED <<raw, rin, budgetVars>>

NextAnchor == AnchorCheck

InitAnchor ==
  /\ \E pins \in AnchorPins :
       \E r \in SeqsUpTo(MaxRouteLen) :
         /\ GateRoute(r)
         /\ RefPositionContract(pins, r)
         /\ CapacityValid(set_route(RawRouteInit(Vehicles[0].capacity), r,
                                    Vehicles[0].capacity),
                          Vehicles[0].capacity)
         /\ rin = AnchorInput(pins)
         /\ raw = seed_relaxed_from_job_ranks(AnchorInput(pins), 0, r)
  /\ rop = [op |-> "init"]
  /\ inp = <<>> /\ sol = <<>> /\ pre = <<>> /\ pc = "idle" /\ ri = 0 /\ loc = <<>>
  /\ kept_routes = <<>> /\ extra_unassigned = <<>>
  /\ remove_from_unassigned_ids = {} /\ log = <<>>

SpecAnchor == InitAnchor /\ [][NextAnchor]_vars

\* C35: TWRoute's range is_valid_addition_for_tw applies the pinned-anchor
\* guards of RawRoute's range is_valid_addition_for_tw: for every route,
\* anchor requirement and edit (empty insertions that remove jobs and
\* insertions between the pickup and the delivery of a pinned-last shipment
\* included), if RawRoute's anchor checks reject the edit then TWRoute's
\* predicate returns false.
C35_TWAppliesRawAnchorGuards ==
  rop.op = "check" => (~rop.raw_ok => ~rop.tw_ok)

----------------------------------------------------------------------------
(* The forward sweep on longer routes: vehicle 0 under hard timing, single  *)
(* jobs and one shipment, routes of up to SweepRouteLen jobs built by       *)
(* validated replacements, so that a job with a narrow time window can     *)
(* have jobs behind it when the sweep reaches it late.                      *)

SweepRouteLen == 5

SweepJobs == {0, 1, 4, 6, 7}

SweepSeqs == {q \in InsertSeqs : Range(q) \subseteq SweepJobs}

SweepRouteOK(q) ==
  Len(q) <= SweepRouteLen /\ Range(q) \subseteq SweepJobs /\ WellFormed(q)

\* TWRoute::replace called after TWRoute::is_valid_addition_for_tw accepted
\* the same arguments
SweepReplace ==
  \E jobs \in SweepSeqs :
    \E first_rank \in 0..Len(raw.raw.route) :
      \E last_rank \in first_rank..Len(raw.raw.route) :
        /\ SweepRouteOK(ReplaceRange(raw.raw.route, jobs, first_rank, last_rank))
        /\ is_valid_addition_for_tw(rin, raw, SingleDeliveries(jobs), jobs,
                                    first_rank, last_rank)
        /\ \E after \in {tw_replace(rin, raw, jobs, first_rank, last_rank)} :
             /\ CapacityValid(after.raw, Vehicles[raw.v_rank].capacity)
             /\ raw' = after
             /\ rop' = [op |-> "replace"]
        /\ UNCHANGED <<rin, budgetVars>>

NextSweep == SweepReplace

InitSweep ==
  /\ rin = TWInput([soft |-> FALSE, budget |-> 0, pinned |-> {}])
  /\ raw = TWRouteInit(0)
  /\ rop = [op |-> "init"]
  /\ inp = <<>> /\ sol = <<>> /\ pre = <<>> /\ pc = "idle" /\ ri = 0 /\ loc = <<>>
  /\ kept_routes = <<>> /\ extra_unassigned = <<>>
  /\ remove_from_unassigned_ids = {} /\ log = <<>>

SpecSweep == InitSweep /\ [][NextSweep]_vars

\* arrival at rank k from the dates of rank k - 1
RefArrival(tw, k) ==
  tw.earliest[k - 1] + tw.action_time[k - 1]
    + duration(Vehicles[tw.v_rank], Jobs[At(tw.raw.route, k - 1)].index,
               Jobs[At(tw.raw.route, k)].index)

\* the forward sweep clamped rank i: the job is reached after the end of
\* every time window it has and holds the end of the last one
RefClampedAt(tw, i) ==
  LET tws == Jobs[At(tw.raw.route, i)].tws IN
  /\ first_open_tw(tws, RefArrival(tw, i)) = 0
  /\ tw.earliest[i] = tws[Len(tws)].end

\* earliest of rank k worked out from rank k - 1, clamped when no window is
\* left
RefRecomputed(tw, k) ==
  LET tws == Jobs[At(tw.raw.route, k)].tws
      w == first_open_tw(tws, RefArrival(tw, k))
  IN IF w = 0 THEN tws[Len(tws)].end
     ELSE Max(RefArrival(tw, k), tws[w].start)

\* C36: when fwd_update_earliest_from reaches a job at rank i none of whose
\* time windows ends at or after the propagated time, it sets earliest[i] to
\* the end of the last time window and continues the sweep: after the
\* replace, earliest of every later rank is the value recomputed from the
\* clamped one, not its previous or sentinel content.
C36_SweepContinuesAfterClamp ==
  rop.op = "replace" =>
    \A i \in 1..(Len(raw.raw.route) - 1) :
       RefClampedAt(raw, i) =>
         \A k \in (i + 1)..(Len(raw.raw.route) - 1) :
            raw.earliest[k] = RefRecomputed(raw, k)

\* the violation budgets of the soft-timing runs
MaxViolationBudget == 2

\* the input with the soft-timing tunables set
RefTiming(in, soft, budget) ==
  [in EXCEPT !.pinned_soft_timing = soft, !.pinned_violation_budget = budget]

\* the range predicate on an edit of the current route, under given tunables
RefAccepts(soft, budget, jobs, first_rank, last_rank) ==
  is_valid_addition_for_tw(RefTiming(rin, soft, budget), raw,
                           SingleDeliveries(jobs), jobs, first_rank, last_rank)

\* current.earliest + next.travel <= next.latest for an edit of the current
\* route
RefFitsNextLatest(jobs, first_rank, last_rank) ==
  LET current == tw_walk(Vehicles[raw.v_rank], jobs, Len(jobs),
                         replace_current(raw, jobs, first_rank, last_rank))
      next == replace_next(raw, jobs, first_rank, last_rank)
  IN current.ok /\ current.earliest + next.travel <= next.latest

====
